---- MODULE Spec2Model ----
(***************************************************************************)
(* Model of the coding agent's action execution and orchestration engine:  *)
(* the shell adapter (tools/shell.py), the filesystem adapter              *)
(* (tools/fs.py), the approval gate (agent/approvals.py) and the           *)
(* orchestration loop CodingAgent.agent_loop (agent/core.py).              *)
(*                                                                         *)
(* Text (commands, paths, file contents) is modelled by TLA+ strings and   *)
(* taken apart with Len, SubSeq and \o.  Risk scores are tenths: the       *)
(* integer 3 stands for 0.3.                                               *)
(***************************************************************************)
EXTENDS Integers, Sequences, FiniteSets, TLC

VARIABLES
    \* ---- ShellTool (tools/shell.py) ----
    shell_call,          \* the last call of ShellTool.run: command, timeout, result
    \* ---- FileSystemTool (tools/fs.py) ----
    fs,                  \* the filesystem: node (sequence of names) -> entry
    now,                 \* int(time.time()), seconds
    fs_call,             \* the last call of a FileSystemTool method and its result
    fs_ops,              \* number of FileSystemTool calls made so far
    \* ---- CodingAgent.agent_loop (agent/core.py) ----
    pc,                  \* position inside agent_loop
    max_iterations,      \* argument max_iterations
    steps_per_iteration, \* argument steps_per_iteration
    iteration,           \* the loop variable `iteration`
    initial_plan,        \* local initial_plan (sequence of actions)
    current_plan,        \* state.current_plan
    actions_to_execute,  \* local actions_to_execute of the current iteration
    action_idx,          \* index of the batch action being executed (1-based)
    observation,         \* the observation of the last batch action
    fix_steps,           \* reflection.fix_plan.steps[:2] still to be tried
    results,             \* the results dict returned by agent_loop
    executed_actions,    \* state.executed_actions
    diffs,               \* state.diffs
    verification_results,\* state.verification_results
    calls,               \* history: every external call the running operation has made
    raised,              \* TRUE when an exception left the running operation
    \* ---- the other operations of CodingAgent (agent/core.py) ----
    op_result,           \* what the last of these operations returned
    attempt,             \* the loop variable `attempt` of reflect_and_fix
    max_retries,         \* argument max_retries of reflect_and_fix
    \* ---- ApprovalSystem (agent/approvals.py) ----
    assess_call,         \* the last call of assess_plan or assess_action and its decision
    \* ---- Executor (agent/executor.py) and the adapters behind it ----
    obs_call,            \* the last call of CodingAgent.observe and its Observation
    exec_call,           \* the last call of Executor.execute: action, dry_run, result, adapter
    installed,           \* the packages DependencyTool.install has installed
    branch,              \* the branch GitTool has checked out
    \* ---- the chat loop (ui/cli.py) ----
    chat_pc,             \* "prompt": at Prompt.ask; "quit": loop left; "raised": exception left chat
    pending_confirmation,\* agent.state.pending_confirmation
    turns,               \* history: the number of non-empty inputs processed
    chat_turn,           \* history: the last input processed and the branch it took
    pending_since,       \* history: the value of turns when pending_confirmation was set
    \* ---- the context buffer of agent_loop (agent/core.py) ----
    context              \* local context: the list of {path, content} the planner is given

shellVars == <<shell_call>>
fsVars == <<fs, now, fs_call, fs_ops>>
loopVars == <<pc, max_iterations, steps_per_iteration, iteration, initial_plan,
               current_plan, actions_to_execute, action_idx, observation,
               fix_steps, results, executed_actions, diffs,
               verification_results, calls, raised, op_result, attempt,
               max_retries>>
sessionVars == <<op_result, attempt, max_retries>>
approvalVars == <<assess_call>>
observeVars == <<obs_call>>
execVars == <<exec_call, installed, branch>>
chatVars == <<chat_pc, pending_confirmation, turns, chat_turn, pending_since>>
contextVars == <<context>>
auxVars == <<approvalVars, observeVars, execVars, chatVars, contextVars>>
vars == <<shell_call, fs, now, fs_call, fs_ops, pc, max_iterations,
          steps_per_iteration, iteration, initial_plan, current_plan,
          actions_to_execute, action_idx, observation, fix_steps, results,
          executed_actions, diffs, verification_results, calls, raised,
          op_result, attempt, max_retries, assess_call, obs_call, exec_call,
          installed, branch, chat_pc, pending_confirmation, turns, chat_turn,
          pending_since, context>>

None == "None"

(***************************************************************************)
(* Text helpers                                                            *)
(***************************************************************************)
Ch(s, i) == SubSeq(s, i, i)

\* s[i:i+len(p)] == p, positions 1-based
StartsAt(s, i, p) ==
    /\ i >= 1
    /\ i + Len(p) - 1 <= Len(s)
    /\ SubSeq(s, i, i + Len(p) - 1) = p

\* p in s
Contains(s, p) == \E t \in {s} : \E i \in 1..(Len(t) + 1) : StartsAt(t, i, p)

\* str.isspace() / regex \s for the characters used here
IsSpace(c) == c \in {" ", "\t", "\n", "\r"}

\* regex \w
WordChars ==
    {"a","b","c","d","e","f","g","h","i","j","k","l","m","n","o","p","q","r",
     "s","t","u","v","w","x","y","z","A","B","C","D","E","F","G","H","I","J",
     "K","L","M","N","O","P","Q","R","S","T","U","V","W","X","Y","Z",
     "0","1","2","3","4","5","6","7","8","9","_"}

IsWord(c) == c \in WordChars

\* every character of s[i..j] is whitespace (true of the empty range)
AllSpace(s, i, j) == \A k \in i..j : IsSpace(Ch(s, k))

\* regex `.` never matches a newline: s[i..j] holds none
NoNewline(s, i, j) == \A k \in i..j : Ch(s, k) # "\n"

\* regex \b between s[i-1] and s[i]
WordBoundary(s, i) ==
    LET left  == i > 1 /\ IsWord(Ch(s, i - 1))
        right == i <= Len(s) /\ IsWord(Ch(s, i))
    IN  left # right

(***************************************************************************)
(* ShellTool (tools/shell.py)                                              *)
(***************************************************************************)
\* SafetyConfig.shell_command_allowlist
allowlist ==
    {"pytest", "python", "python3", "node", "npm", "pnpm", "yarn", "ruff",
     "mypy", "eslint", "tsc", "make", "uv", "pip", "git"}

\* SafetyConfig.max_shell_timeout
max_timeout == 120

\* command.strip().split()[0], "" for a blank command
FirstWord(command) ==
    LET idx == {i \in 1..Len(command) : ~IsSpace(Ch(command, i))}
    IN  IF idx = {} THEN ""
        ELSE LET st == CHOOSE i \in idx : \A j \in idx : i <= j
                 en == CHOOSE j \in st..Len(command) :
                           /\ \A k \in st..j : k \in idx
                           /\ (j = Len(command) \/ (j + 1) \notin idx)
             IN  SubSeq(command, st, en)

\* first_word.split("/")[-1]
BaseCommand(first_word) ==
    LET slashes == {i \in 1..Len(first_word) : Ch(first_word, i) = "/"}
    IN  IF slashes = {} THEN first_word
        ELSE LET last == CHOOSE i \in slashes : \A j \in slashes : j <= i
             IN  SubSeq(first_word, last + 1, Len(first_word))

\* re.search(r"\brm\s+-rf\s+/", command)
MatchRmRfRoot(command) ==
    \E i \in 1..Len(command) :
        /\ WordBoundary(command, i)
        /\ StartsAt(command, i, "rm")
        /\ \E j \in (i + 3)..Len(command) :
              /\ AllSpace(command, i + 2, j - 1)
              /\ StartsAt(command, j, "-rf")
              /\ \E k \in (j + 4)..Len(command) :
                    /\ AllSpace(command, j + 3, k - 1)
                    /\ StartsAt(command, k, "/")

\* re.search(tool + r".*\|.*bash", command) for tool = "curl", "wget"
MatchPipeToBash(command, tool) ==
    \E i \in 1..Len(command) :
        /\ StartsAt(command, i, tool)
        /\ \E j \in (i + Len(tool))..Len(command) :
              /\ Ch(command, j) = "|"
              /\ \E k \in (j + 1)..Len(command) :
                    /\ StartsAt(command, k, "bash")
                    /\ NoNewline(command, i + Len(tool), k - 1)

\* re.search(r"\bsudo\b", command)
MatchSudo(command) ==
    \E i \in 1..Len(command) :
        /\ WordBoundary(command, i)
        /\ StartsAt(command, i, "sudo")
        /\ WordBoundary(command, i + 4)

\* re.search(r">\s*/dev/", command)
MatchDevWrite(command) ==
    \E i \in 1..Len(command) :
        /\ Ch(command, i) = ">"
        /\ \E j \in (i + 1)..Len(command) :
              /\ AllSpace(command, i + 1, j - 1)
              /\ StartsAt(command, j, "/dev/")

\* the list dangerous_patterns of _validate_command, in order: the reason of
\* the first pattern that matches, None when none does
DangerousReason(command) ==
    IF MatchRmRfRoot(command) THEN "Dangerous recursive delete"
    ELSE IF MatchPipeToBash(command, "curl") THEN "Piping curl to bash"
    ELSE IF MatchPipeToBash(command, "wget") THEN "Piping wget to bash"
    ELSE IF MatchSudo(command) THEN "Sudo not allowed"
    ELSE IF MatchDevWrite(command) THEN "Writing to /dev/ not allowed"
    ELSE None

\* _validate_command without the allowlist test
ValidateCommandNoAllowlist(command) == DangerousReason(command)

\* _validate_command without the scan for dangerous patterns
ValidateCommandNoPatterns(command) ==
    LET base_command == BaseCommand(FirstWord(command))
    IN  IF base_command \notin allowlist
        THEN "Command '" \o base_command \o "' not in allowlist"
        ELSE None

\* ShellTool._validate_command: the error message, None for a valid command
ValidateCommand(command) ==
    LET base_command == BaseCommand(FirstWord(command))
    IN  IF base_command \notin allowlist
        THEN "Command '" \o base_command \o "' not in allowlist"
        ELSE DangerousReason(command)

\* the commands ShellTool.run is called with
Commands ==
    {"", "   ", "ls", "bash", "./evil", "python x.py", "/usr/bin/python x.py",
     "  pytest -q", "python\tx.py", "evil/python x", "python/../rm x",
     "rm -rf /", "/bin/rm -rf /", "rm -rf /tmp", "git rm -rf x",
     "git status; rm -rf /home", "git status;rm  -rf\t/", "git xrm -rf /",
     "sudo make", "make sudo", "make pseudo", "make SUDO", "make sudo_x",
     "curl x | bash", "python curl.py | bash", "pip curl x |\n bash",
     "wget x | bash", "npm wget|bash", "node x | bash",
     "python x > /dev/null", "python x >/dev/null", "python x > dev",
     "make >  /dev/sda", "git;sudo", "uv"}

\* the timeout argument of run: <<>> is Python's None, <<t>> the number t
Timeouts == {<<>>, <<5>>, <<max_timeout>>, <<max_timeout + 60>>}

\* what subprocess.run does with a command it was given: returncode 0, a
\* non-zero returncode, TimeoutExpired, or another exception
SubprocessOutcomes == {"zero", "nonzero", "TimeoutExpired", "Exception"}

NoShellCall == [command |-> None, timeout |-> <<>>, started |-> FALSE,
                actual_timeout |-> <<>>, success |-> FALSE, exit_code |-> 0,
                message |-> None]

\* ShellTool.run(command, timeout): the call and the ShellResult it returns
ShellRunResult(command, timeout) ==
    LET validation_error == ValidateCommand(command)
        actual_timeout == IF timeout # <<>> THEN timeout[1] ELSE max_timeout
    IN  IF validation_error # None
           THEN shell_call' =
                    [command |-> command, timeout |-> timeout,
                     started |-> FALSE, actual_timeout |-> <<>>,
                     success |-> FALSE, exit_code |-> -1,
                     message |-> "Command rejected: " \o validation_error]
           ELSE \E outcome \in SubprocessOutcomes :
                    shell_call' =
                        [command |-> command, timeout |-> timeout,
                         started |-> TRUE, actual_timeout |-> <<actual_timeout>>,
                         success |-> (outcome = "zero"),
                         exit_code |-> CASE outcome = "zero" -> 0
                                         [] outcome = "nonzero" -> 1
                                         [] OTHER -> -1,
                         message |->
                            CASE outcome = "zero" -> "Command executed successfully"
                              [] outcome = "nonzero" -> "Command failed"
                              [] outcome = "TimeoutExpired" -> "Command timed out"
                              [] OTHER -> "Error executing command"]

\* ShellTool.run(command, timeout) called on its own
ShellRun(command, timeout) ==
    /\ ShellRunResult(command, timeout)
    /\ UNCHANGED <<fsVars, loopVars, auxVars>>


(***************************************************************************)
(* FileSystemTool (tools/fs.py)                                            *)
(*                                                                         *)
(* A node is the sequence of names from "/" down; the filesystem maps the  *)
(* nodes that exist to a directory, a file with its content, or a symbolic *)
(* link with its (resolved) target.                                        *)
(***************************************************************************)
Min(S) == CHOOSE x \in S : \A y \in S : x <= y

IsPrefix(p, n) == Len(p) <= Len(n) /\ SubSeq(n, 1, Len(p)) = p

Dir == [kind |-> "dir", content |-> "", target |-> <<>>]
File(content) == [kind |-> "file", content |-> content, target |-> <<>>]
Link(target) == [kind |-> "link", content |-> "", target |-> target]

\* FileSystemTool.repo_root, already resolved
repo_root == <<"home", "repo">>

\* FileSystemTool.trash_dir
trash_dir == repo_root \o <<".agent_trash">>

\* SafetyConfig.max_file_size_bytes
max_file_size == 1048576

RECURSIVE Concat(_)
\* "".join(lines)
Concat(lines) ==
    IF lines = <<>> THEN "" ELSE Head(lines) \o Concat(Tail(lines))

RECURSIVE SplitLines(_)
\* str.splitlines(keepends=True); a line ends at \n, \r\n, \r and at the
\* other boundaries str.splitlines knows (\v, \f, \x1c-\x1e, \x85, \u2028,
\* \u2029), of which \f stands for all
SplitLines(s) ==
    IF s = "" THEN <<>>
    ELSE LET brk == {i \in 1..Len(s) : Ch(s, i) \in {"\n", "\r", "\f"}}
         IN  IF brk = {} THEN <<s>>
             ELSE LET f == Min(brk)
                      e == IF Ch(s, f) = "\r" /\ f < Len(s) /\ Ch(s, f + 1) = "\n"
                           THEN f + 1 ELSE f
                  IN  <<SubSeq(s, 1, e)>> \o SplitLines(SubSeq(s, e + 1, Len(s)))

RECURSIVE NewlineSplit(_)
\* the lines a text-mode file has: each ends at \n, \r\n or \r
NewlineSplit(s) ==
    IF s = "" THEN <<>>
    ELSE LET brk == {i \in 1..Len(s) : Ch(s, i) \in {"\n", "\r"}}
         IN  IF brk = {} THEN <<s>>
             ELSE LET f == Min(brk)
                      e == IF Ch(s, f) = "\r" /\ f < Len(s) /\ Ch(s, f + 1) = "\n"
                           THEN f + 1 ELSE f
                  IN  <<SubSeq(s, 1, e)>> \o NewlineSplit(SubSeq(s, e + 1, Len(s)))

\* the text-mode translation of Path.read_text: \r\n and \r are read as \n
UniversalNewlines(s) ==
    LET lines == NewlineSplit(s)
        conv(l) == IF StartsAt(l, Len(l) - 1, "\r\n") THEN SubSeq(l, 1, Len(l) - 2) \o "\n"
                   ELSE IF StartsAt(l, Len(l), "\r") THEN SubSeq(l, 1, Len(l) - 1) \o "\n"
                   ELSE l
    IN  Concat([i \in 1..Len(lines) |-> conv(lines[i])])

RECURSIVE PathParts(_)
\* the components of a path string, empty components dropped
PathParts(path) ==
    IF path = "" THEN <<>>
    ELSE LET slashes == {i \in 1..Len(path) : Ch(path, i) = "/"}
         IN  IF slashes = {} THEN <<path>>
             ELSE LET f == Min(slashes)
                  IN  (IF f = 1 THEN <<>> ELSE <<SubSeq(path, 1, f - 1)>>)
                      \o PathParts(SubSeq(path, f + 1, Len(path)))

\* Path(path).is_absolute()
IsAbsolute(path) == StartsAt(path, 1, "/")

RECURSIVE ResolveFrom(_, _, _)
\* Path.resolve(): "." dropped, ".." goes to the parent ("/" is its own
\* parent), a symbolic link is replaced by its target, names that do not
\* exist are kept
ResolveFrom(fsys, node, parts) ==
    IF parts = <<>> THEN node
    ELSE LET part == Head(parts)
             next == IF part = "." THEN node
                     ELSE IF part = ".."
                          THEN (IF node = <<>> THEN node ELSE SubSeq(node, 1, Len(node) - 1))
                          ELSE LET child == Append(node, part)
                               IN  IF child \in DOMAIN fsys /\ fsys[child].kind = "link"
                                   THEN fsys[child].target
                                   ELSE child
         IN  ResolveFrom(fsys, next, Tail(parts))

\* (self.repo_root / path).resolve(): an absolute path replaces repo_root
Resolve(fsys, path) ==
    ResolveFrom(fsys, IF IsAbsolute(path) THEN <<>> ELSE repo_root, PathParts(path))

\* _validate_path without the test for an absolute path argument
ValidatePathNoAbsolute(fsys, path) ==
    LET full_path == Resolve(fsys, path)
    IN  IF ~IsPrefix(repo_root, full_path)
        THEN [ok |-> FALSE, full_path |-> full_path, error |-> "is outside repository root"]
        ELSE [ok |-> TRUE, full_path |-> full_path, error |-> ""]

\* _validate_path that tests the path jail on the unresolved path
ValidatePathNoResolve(fsys, path) ==
    LET full_path == Resolve(fsys, path)
    IN  IF IsAbsolute(path)
        THEN [ok |-> FALSE, full_path |-> full_path, error |-> "Absolute paths not allowed"]
        ELSE [ok |-> TRUE, full_path |-> full_path, error |-> ""]

\* FileSystemTool._validate_path: ok with the resolved path, or the
\* ValueError it raises
ValidatePath(fsys, path) ==
    LET full_path == Resolve(fsys, path)
    IN  IF ~IsPrefix(repo_root, full_path)
        THEN [ok |-> FALSE, full_path |-> full_path, error |-> "is outside repository root"]
        ELSE IF IsAbsolute(path)
        THEN [ok |-> FALSE, full_path |-> full_path, error |-> "Absolute paths not allowed"]
        ELSE [ok |-> TRUE, full_path |-> full_path, error |-> ""]

Exists(fsys, node) == node \in DOMAIN fsys
IsDir(fsys, node) == node \in DOMAIN fsys /\ fsys[node].kind = "dir"
IsFile(fsys, node) == node \in DOMAIN fsys /\ fsys[node].kind = "file"

\* the proper ancestors of a node and the node itself, "/" excluded
Ancestors(node) == {SubSeq(node, 1, k) : k \in 1..Len(node)}

\* Path.mkdir(parents=True, exist_ok=True) raises when the node or one of its
\* ancestors exists and is not a directory
CanMkdirs(fsys, node) ==
    \A a \in Ancestors(node) : Exists(fsys, a) => IsDir(fsys, a)

Mkdirs(fsys, node) ==
    [n \in DOMAIN fsys \cup Ancestors(node) |->
        IF n \in DOMAIN fsys THEN fsys[n] ELSE Dir]

\* Path.write_text on a node whose parent directory exists
WriteText(fsys, node, content) ==
    [n \in DOMAIN fsys \cup {node} |-> IF n = node THEN File(content) ELSE fsys[n]]

\* _generate_diff: empty when the two texts have the same lines, else the
\* unified diff, of which the model keeps the two header lines
GenerateDiff(old_content, new_content, filename) ==
    IF SplitLines(old_content) = SplitLines(new_content) THEN ""
    ELSE "--- a/" \o filename \o "\n+++ b/" \o filename \o "\n"

\* a FileOperation
FileOperation(success, message, diff, data) ==
    [success |-> success, message |-> message, diff |-> diff, data |-> data]

\* the pair a FileSystemTool method leaves: the filesystem and its result
Outcome(fsys, result) == [fs |-> fsys, result |-> result]

\* FileSystemTool.read(path)
ReadOp(fsys, path) ==
    LET v == ValidatePath(fsys, path)
        full_path == v.full_path
    IN  IF ~v.ok
        THEN Outcome(fsys, FileOperation(FALSE, "Error reading " \o path \o ": " \o v.error, None, None))
        ELSE IF ~Exists(fsys, full_path)
        THEN Outcome(fsys, FileOperation(FALSE, "File not found: " \o path, None, None))
        ELSE IF ~IsFile(fsys, full_path)
        THEN Outcome(fsys, FileOperation(FALSE, "Not a file: " \o path, None, None))
        ELSE IF Len(fsys[full_path].content) > max_file_size
        THEN Outcome(fsys, FileOperation(FALSE, "File too large: " \o path, None, None))
        ELSE LET content == UniversalNewlines(fsys[full_path].content)
             IN  Outcome(fsys, FileOperation(TRUE,
                     "Read " \o ToString(Len(content)) \o " bytes", None, content))

\* FileSystemTool.write with the size limit checked after the parent
\* directories are made
WriteOpChecksSizeLate(fsys, path, content) ==
    LET v == ValidatePath(fsys, path)
        full_path == v.full_path
        parent == SubSeq(full_path, 1, Len(full_path) - 1)
    IN  IF ~v.ok
        THEN Outcome(fsys, FileOperation(FALSE, "Error writing " \o path \o ": " \o v.error, None, None))
        ELSE IF ~CanMkdirs(fsys, parent)
        THEN Outcome(fsys, FileOperation(FALSE, "Error writing " \o path \o ": Not a directory", None, None))
        ELSE LET made == Mkdirs(fsys, parent)
             IN  IF Len(content) > max_file_size
                 THEN Outcome(made, FileOperation(FALSE, "Content too large for " \o path, None, None))
                 ELSE IF Exists(made, full_path) /\ ~IsFile(made, full_path)
                 THEN Outcome(made, FileOperation(FALSE,
                          "Error writing " \o path \o ": Is a directory", None, None))
                 ELSE LET old_content == IF Exists(made, full_path)
                                         THEN UniversalNewlines(made[full_path].content)
                                         ELSE ""
                          action == IF old_content # "" THEN "Updated" ELSE "Created"
                      IN  Outcome(WriteText(made, full_path, content),
                              FileOperation(TRUE,
                                  action \o " " \o path \o " (" \o ToString(Len(content)) \o " bytes)",
                                  GenerateDiff(old_content, content, path), None))

\* FileSystemTool.write(path, content)
WriteOp(fsys, path, content) ==
    LET v == ValidatePath(fsys, path)
        full_path == v.full_path
        parent == SubSeq(full_path, 1, Len(full_path) - 1)
    IN  IF ~v.ok
        THEN Outcome(fsys, FileOperation(FALSE, "Error writing " \o path \o ": " \o v.error, None, None))
        ELSE IF Len(content) > max_file_size
        THEN Outcome(fsys, FileOperation(FALSE, "Content too large for " \o path, None, None))
        ELSE IF ~CanMkdirs(fsys, parent)
        THEN Outcome(fsys, FileOperation(FALSE, "Error writing " \o path \o ": Not a directory", None, None))
        ELSE LET made == Mkdirs(fsys, parent)
             IN  IF Exists(made, full_path) /\ ~IsFile(made, full_path)
                 THEN Outcome(made, FileOperation(FALSE,
                          "Error writing " \o path \o ": Is a directory", None, None))
                 ELSE LET old_content == IF Exists(made, full_path)
                                         THEN UniversalNewlines(made[full_path].content)
                                         ELSE ""
                          action == IF old_content # "" THEN "Updated" ELSE "Created"
                      IN  Outcome(WriteText(made, full_path, content),
                              FileOperation(TRUE,
                                  action \o " " \o path \o " (" \o ToString(Len(content)) \o " bytes)",
                                  GenerateDiff(old_content, content, path), None))

\* the least position at which old_text occurs in content (str.find, 1-based)
FindFirst(content, old_text) ==
    Min({i \in 1..(Len(content) + 1) : StartsAt(content, i, old_text)})

\* content.replace(old_text, new_text, 1) when old_text occurs in content
ReplaceFirst(content, old_text, new_text) ==
    LET i == FindFirst(content, old_text)
    IN  SubSeq(content, 1, i - 1) \o new_text
        \o SubSeq(content, i + Len(old_text), Len(content))

\* FileSystemTool.edit(path, old_text, new_text)
EditOp(fsys, path, old_text, new_text) ==
    LET v == ValidatePath(fsys, path)
        full_path == v.full_path
    IN  IF ~v.ok
        THEN Outcome(fsys, FileOperation(FALSE, "Error editing " \o path \o ": " \o v.error, None, None))
        ELSE IF ~Exists(fsys, full_path)
        THEN Outcome(fsys, FileOperation(FALSE, "File not found: " \o path, None, None))
        ELSE IF ~IsFile(fsys, full_path)
        THEN Outcome(fsys, FileOperation(FALSE, "Error editing " \o path \o ": Is a directory", None, None))
        ELSE LET content == UniversalNewlines(fsys[full_path].content)
             IN  IF ~Contains(content, old_text)
                 THEN Outcome(fsys, FileOperation(FALSE,
                          "Text not found in " \o path \o ". Cannot apply edit.", None, None))
                 ELSE LET new_content == ReplaceFirst(content, old_text, new_text)
                      IN  Outcome(WriteText(fsys, full_path, new_content),
                              FileOperation(TRUE, "Edited " \o path,
                                  GenerateDiff(content, new_content, path), None))

\* list.insert(index, x) with a 0-based index >= 0
ListInsert(lines, index, x) ==
    LET k == IF index > Len(lines) THEN Len(lines) ELSE index
    IN  SubSeq(lines, 1, k) \o <<x>> \o SubSeq(lines, k + 1, Len(lines))

\* FileSystemTool.insert_lines(path, line_number, content, operation)
InsertLinesOp(fsys, path, line_number, content, operation) ==
    LET v == ValidatePath(fsys, path)
        full_path == v.full_path
    IN  IF ~v.ok
        THEN Outcome(fsys, FileOperation(FALSE, "Error inserting in " \o path \o ": " \o v.error, None, None))
        ELSE IF ~Exists(fsys, full_path)
        THEN Outcome(fsys, FileOperation(FALSE, "File not found: " \o path, None, None))
        ELSE IF ~IsFile(fsys, full_path)
        THEN Outcome(fsys, FileOperation(FALSE, "Error inserting in " \o path \o ": Is a directory", None, None))
        ELSE LET read == SplitLines(UniversalNewlines(fsys[full_path].content))
                 n == Len(read)
                 lines == IF n > 0 /\ ~StartsAt(read[n], Len(read[n]), "\n")
                          THEN [read EXCEPT ![n] = @ \o "\n"]
                          ELSE read
             IN  IF line_number < 1 \/ line_number > n + 1
                 THEN Outcome(fsys, FileOperation(FALSE,
                          "Line number " \o ToString(line_number) \o " out of range (file has "
                          \o ToString(n) \o " lines)", None, None))
                 ELSE LET old_content == Concat(lines)
                          text == IF content # "" /\ ~StartsAt(content, Len(content), "\n")
                                  THEN content \o "\n" ELSE content
                      IN  IF operation \notin {"after", "before", "replace"}
                          THEN Outcome(fsys, FileOperation(FALSE,
                                   "Invalid operation: " \o operation
                                   \o ". Must be 'after', 'before', or 'replace'", None, None))
                          ELSE IF operation = "replace" /\ line_number > n
                          THEN Outcome(fsys, FileOperation(FALSE,
                                   "Error inserting in " \o path
                                   \o ": list assignment index out of range", None, None))
                          ELSE LET new_lines ==
                                       CASE operation = "after" -> ListInsert(lines, line_number, text)
                                         [] operation = "before" -> ListInsert(lines, line_number - 1, text)
                                         [] OTHER -> [lines EXCEPT ![line_number] = text]
                                   new_content == Concat(new_lines)
                               IN  Outcome(WriteText(fsys, full_path, new_content),
                                       FileOperation(TRUE,
                                           "Inserted at line " \o ToString(line_number) \o " in " \o path,
                                           GenerateDiff(old_content, new_content, path), None))

\* what os.rename(src, dst) leaves: src and all below it now at dst
MoveTree(fsys, src, dst) ==
    LET moved == {n \in DOMAIN fsys : IsPrefix(src, n)}
        rebase(n) == dst \o SubSeq(n, Len(src) + 1, Len(n))
        target == {rebase(n) : n \in moved}
    IN  [m \in (DOMAIN fsys \ moved) \cup target |->
            IF m \in target
            THEN fsys[CHOOSE n \in moved : rebase(n) = m]
            ELSE fsys[m]]

\* FileSystemTool.delete(path) at time timestamp
DeleteOp(fsys, path, timestamp) ==
    LET v == ValidatePath(fsys, path)
        full_path == v.full_path
    IN  IF ~v.ok
        THEN Outcome(fsys, FileOperation(FALSE, "Error deleting " \o path \o ": " \o v.error, None, None))
        ELSE IF ~Exists(fsys, full_path)
        THEN Outcome(fsys, FileOperation(FALSE, "File not found: " \o path, None, None))
        ELSE IF Exists(fsys, trash_dir) /\ ~IsDir(fsys, trash_dir)
        THEN Outcome(fsys, FileOperation(FALSE, "Error deleting " \o path \o ": File exists", None, None))
        ELSE LET made == [n \in DOMAIN fsys \cup {trash_dir} |->
                             IF n = trash_dir THEN Dir ELSE fsys[n]]
                 name == full_path[Len(full_path)]
                 trash_name == ToString(timestamp) \o "_" \o name
                 trash_path == Append(trash_dir, trash_name)
                 \* shutil.move: into dst when dst is a directory
                 real_dst == IF IsDir(made, trash_path) THEN Append(trash_path, name)
                             ELSE trash_path
                 fails == \/ IsDir(made, trash_path) /\ Exists(made, real_dst)
                          \/ IsDir(made, full_path)
                               /\ (IsPrefix(full_path, real_dst) \/ Exists(made, real_dst))
             IN  IF fails
                 THEN Outcome(made, FileOperation(FALSE,
                          "Error deleting " \o path \o ": cannot move", None, None))
                 ELSE Outcome(MoveTree(made, full_path, real_dst),
                          FileOperation(TRUE,
                              "Deleted " \o path \o " (moved to " \o trash_name \o ")", None, None))

\* FileSystemTool.list_directory(path)
ListDirectoryOp(fsys, path) ==
    LET v == ValidatePath(fsys, path)
        full_path == v.full_path
    IN  IF ~v.ok
        THEN Outcome(fsys, FileOperation(FALSE, "Error listing " \o path \o ": " \o v.error, None, None))
        ELSE IF ~Exists(fsys, full_path)
        THEN Outcome(fsys, FileOperation(FALSE, "Directory not found: " \o path, None, None))
        ELSE IF ~IsDir(fsys, full_path)
        THEN Outcome(fsys, FileOperation(FALSE, "Not a directory: " \o path, None, None))
        ELSE Outcome(fsys, FileOperation(TRUE,
                 "Found " \o ToString(Cardinality({n \in DOMAIN fsys :
                      Len(n) = Len(full_path) + 1 /\ IsPrefix(full_path, n)})) \o " items",
                 None, None))

\* ---- bounds of the filesystem specifications ----
MaxFsOps == 2
MaxTime == 1

\* the arguments of a call besides the path; an argument the method does not
\* take is "" or 0 (edit: content is new_text)
FsArgs(content, old_text, line_number, operation) ==
    [content |-> content, old_text |-> old_text, line_number |-> line_number,
     operation |-> operation]

NoFsArgs == FsArgs("", "", 0, "")

NoFsCall == [op |-> None, path |-> None, args |-> NoFsArgs,
             result |-> FileOperation(FALSE, None, None, None)]

\* one call of a FileSystemTool method: the filesystem and the result it leaves
FsCall(op, path, args, outcome) ==
    /\ fs_ops < MaxFsOps
    /\ fs' = outcome.fs
    /\ fs_call' = [op |-> op, path |-> path, args |-> args, result |-> outcome.result]
    /\ fs_ops' = fs_ops + 1
    /\ UNCHANGED <<now, shellVars, auxVars, loopVars>>

FsRead(path) == FsCall("read", path, NoFsArgs, ReadOp(fs, path))

FsWrite(path, content) ==
    FsCall("write", path, FsArgs(content, "", 0, ""), WriteOp(fs, path, content))

FsEdit(path, old_text, new_text) ==
    FsCall("edit", path, FsArgs(new_text, old_text, 0, ""),
           EditOp(fs, path, old_text, new_text))

FsInsertLines(path, line_number, content, operation) ==
    FsCall("insert_lines", path, FsArgs(content, "", line_number, operation),
           InsertLinesOp(fs, path, line_number, content, operation))

FsDelete(path) == FsCall("delete", path, NoFsArgs, DeleteOp(fs, path, now))

FsListDirectory(path) ==
    FsCall("list_directory", path, NoFsArgs, ListDirectoryOp(fs, path))

\* the clock read by time.time() moves on between calls
Tick ==
    /\ now < MaxTime
    /\ now' = now + 1
    /\ UNCHANGED <<fs, fs_call, fs_ops, shellVars, auxVars, loopVars>>

\* a repository at /home/repo with files, a directory and a symbolic link
\* that leaves the repository, next to files outside it
JailFs ==
    LET nodes == {<<>>, <<"home">>, <<"etc">>, <<"etc", "passwd">>,
                  <<"home", "x">>, <<"home", "repo2">>, <<"home", "repo2", "a.txt">>,
                  repo_root, repo_root \o <<"a.txt">>, repo_root \o <<"d">>,
                  repo_root \o <<"d", "a.txt">>, repo_root \o <<"lnk">>}
    IN  [n \in nodes |->
            CASE n = repo_root \o <<"lnk">> -> Link(<<"etc">>)
              [] n # <<>> /\ n[Len(n)] \in {"passwd", "x", "a.txt"} -> File("x\n")
              [] OTHER -> Dir]

\* path arguments: inside the repository, leaving it through "..", through
\* an absolute path or through the link, and leaving and coming back
JailPaths ==
    {"a.txt", "d/a.txt", "new/b.txt", ".", "d/../a.txt", "../repo/a.txt",
     "..", "../x", "d/../../x", "../repo2/a.txt", "../../etc/passwd",
     "../../../../etc/passwd", "../../made/y", "lnk/passwd", "lnk",
     "/etc/passwd", "/home/repo/a.txt", "/home/repo", "/"}

FsIdle ==
    /\ fs = JailFs
    /\ now = 0
    /\ fs_call = NoFsCall
    /\ fs_ops = 0

JailNext ==
    \/ \E path \in JailPaths : FsRead(path)
    \/ \E path \in JailPaths : FsWrite(path, "new\n")
    \/ \E path \in JailPaths : FsEdit(path, "x", "y")
    \/ \E path \in JailPaths : FsInsertLines(path, 1, "z", "after")
    \/ \E path \in JailPaths : FsDelete(path)
    \/ \E path \in JailPaths : FsListDirectory(path)
    \/ Tick

\* the resolved form of the path is not the repository root or below it
Escapes(fsys, path) == ~IsPrefix(repo_root, Resolve(fsys, path))

\* C2: for every path argument whose resolved form is not the repository
\* root or a descendant of it, read, write, edit, insert_lines, delete and
\* list_directory return success=false and leave the whole filesystem as it
\* was; an absolute path argument is rejected also when it points inside
\* the root.
PathJailHolds ==
    [][(fs_ops' = fs_ops + 1)
         => /\ Escapes(fs, fs_call'.path)
                 => (~fs_call'.result.success /\ fs' = fs)
            /\ IsAbsolute(fs_call'.path) => ~fs_call'.result.success]_vars

\* a write through ".." segments to a file next to the repository was
\* refused and the file still has its content
PathJailWitness ==
    /\ fs_call.op = "write"
    /\ fs_call.path = "d/../../x"
    /\ ~fs_call.result.success
    /\ fs[<<"home", "x">>] = File("x\n")

\* ---- calls of the FileSystemTool methods on the files of a repository ----
\* a repository at /home/repo with a.txt of the given content and d/a.txt
WorkFs(content) ==
    LET nodes == {<<>>, <<"home">>, repo_root, repo_root \o <<"a.txt">>,
                  repo_root \o <<"d">>, repo_root \o <<"d", "a.txt">>}
    IN  [n \in nodes |->
            CASE n = repo_root \o <<"a.txt">> -> File(content)
              [] n = repo_root \o <<"d", "a.txt">> -> File("two\n")
              [] OTHER -> Dir]

\* what a.txt holds at the start: nothing, lines with a repeated text, lines
\* that end in \r\n, a form feed inside a line and at the end, no final newline
FileContents == {"", "ab\nab\n", "a\r\nb", "a\fb\n", "a\f", "1\n2\n3"}

WorkPaths == {"a.txt", "d/a.txt"}

WriteContents == {"", "a\rb\n", "new"}

\* a content of max_file_size + 1 bytes
Oversized ==
    LET doubled[i \in 0..20] == IF i = 0 THEN "x" ELSE doubled[i - 1] \o doubled[i - 1]
    IN  doubled[20] \o "x"

OldTexts == {"ab", "a\nb", "zz"}

\* the largest line number of a call
MaxLine == 4

\* (operation, content, line_number) of the insert_lines calls
InsertArgs ==
    ({"replace"} \X {"", "x", "x\ny"} \X (0..MaxLine))
    \cup ({"after", "before"} \X {"x"} \X (0..MaxLine))
    \cup ({"append"} \X {"x"} \X {1, MaxLine + 1})

FsInit ==
    /\ fs \in {WorkFs(content) : content \in FileContents}
    /\ now = 0
    /\ fs_call = NoFsCall
    /\ fs_ops = 0

FsNext ==
    \/ \E path \in WorkPaths : FsRead(path)
    \/ \E path \in WorkPaths, content \in WriteContents : FsWrite(path, content)
    \/ \E path \in {"a.txt", "n/a.txt"}, content \in {"new", Oversized} :
          FsWrite(path, content)
    \/ \E old_text \in OldTexts : FsEdit("a.txt", old_text, "c")
    \/ \E a \in InsertArgs : FsInsertLines("a.txt", a[3], a[2], a[1])
    \/ \E path \in WorkPaths \cup {"d"} : FsDelete(path)
    \/ FsListDirectory("d")
    \/ Tick

(***************************************************************************)
(* ApprovalSystem (agent/approvals.py), as CodingAgent.__init__ builds it  *)
(***************************************************************************)
\* str.lower() of one character
LowerChar(c) ==
    CASE c = "A" -> "a"
      [] c = "B" -> "b"
      [] c = "C" -> "c"
      [] c = "D" -> "d"
      [] c = "E" -> "e"
      [] c = "F" -> "f"
      [] c = "G" -> "g"
      [] c = "H" -> "h"
      [] c = "I" -> "i"
      [] c = "J" -> "j"
      [] c = "K" -> "k"
      [] c = "L" -> "l"
      [] c = "M" -> "m"
      [] c = "N" -> "n"
      [] c = "O" -> "o"
      [] c = "P" -> "p"
      [] c = "Q" -> "q"
      [] c = "R" -> "r"
      [] c = "S" -> "s"
      [] c = "T" -> "t"
      [] c = "U" -> "u"
      [] c = "V" -> "v"
      [] c = "W" -> "w"
      [] c = "X" -> "x"
      [] c = "Y" -> "y"
      [] c = "Z" -> "z"
      [] OTHER -> c

\* str.lower()
Lower(s) ==
    LET low[i \in 0..Len(s)] ==
            IF i = 0 THEN "" ELSE low[i - 1] \o LowerChar(Ch(s, i))
    IN  low[Len(s)]

\* RiskConfig.auto_approve_score_max, in tenths
auto_approve_max == 3

\* re.search(tool + ".*bash", command, re.IGNORECASE) on the lower-cased command
MatchThenBash(lowered, tool) ==
    \E i \in 1..Len(lowered) :
        /\ StartsAt(lowered, i, tool)
        /\ \E k \in (i + Len(tool))..Len(lowered) :
              /\ StartsAt(lowered, k, "bash")
              /\ NoNewline(lowered, i + Len(tool), k - 1)

\* ApprovalSystem._is_dangerous_shell_cmd with the patterns of
\* RiskConfig.require_approval_patterns: "rm ", "sudo", "curl.*bash",
\* "wget.*bash", matched with re.IGNORECASE
IsDangerousShellCmd(command) ==
    LET lowered == Lower(command)
    IN  \/ Contains(lowered, "rm ")
        \/ Contains(lowered, "sudo")
        \/ MatchThenBash(lowered, "curl")
        \/ MatchThenBash(lowered, "wget")

\* max(risk, 0.8) in tenths
MaxRisk(a, b) == IF a >= b THEN a ELSE b

ApprovalDecision(approved, risk_score, reason, requires_confirmation) ==
    [approved |-> approved, risk_score |-> risk_score, reason |-> reason,
     requires_confirmation |-> requires_confirmation]

\* ApprovalSystem.assess_action without the test of the shell command
AssessActionNoShellCheck(action) ==
    ApprovalDecision(action.risk_score <= auto_approve_max, action.risk_score,
                     "Standard risk assessment", ~(action.risk_score <= auto_approve_max))

\* ApprovalSystem.assess_action that never asks to confirm a deletion
AssessActionDeleteUnconfirmed(action) ==
    LET risk == action.risk_score
    IN  IF action.type = "fs_delete"
        THEN ApprovalDecision(risk <= auto_approve_max, risk, "File deletion", FALSE)
        ELSE IF action.type = "shell_run" /\ IsDangerousShellCmd(action.command)
        THEN ApprovalDecision(FALSE, MaxRisk(risk, 8), "Dangerous shell command", TRUE)
        ELSE ApprovalDecision(risk <= auto_approve_max, risk, "Standard risk assessment",
                              ~(risk <= auto_approve_max))

\* ApprovalSystem.assess_action
assess_action(action) ==
    LET risk == action.risk_score
    IN  IF action.type = "fs_delete"
        THEN ApprovalDecision(risk <= auto_approve_max, risk, "File deletion",
                              risk > auto_approve_max)
        ELSE IF action.type = "shell_run" /\ IsDangerousShellCmd(action.command)
        THEN ApprovalDecision(FALSE, MaxRisk(risk, 8), "Dangerous shell command", TRUE)
        ELSE ApprovalDecision(risk <= auto_approve_max, risk, "Standard risk assessment",
                              ~(risk <= auto_approve_max))

\* an Action of llm/schemas.py: type, risk_score (tenths) and the args the
\* engine reads ("" when the argument is absent)
Action(type, risk_score, path, command) ==
    [type |-> type, risk_score |-> risk_score, path |-> path, command |-> command]

NoAction == Action(None, 0, "", "")

\* RiskConfig.delete_file_max_count
delete_file_max == 3

\* the two numbers of a RiskConfig that ApprovalSystem.__init__ takes over
RiskConfig(auto_approve_score_max, delete_file_max_count) ==
    [auto_approve_max |-> auto_approve_score_max,
     delete_file_max |-> delete_file_max_count]

\* ApprovalSystem._is_dangerous_shell without the test of the action's type
IsDangerousShellAnyType(action) == IsDangerousShellCmd(action.command)

\* ApprovalSystem._is_dangerous_shell
IsDangerousShell(action) ==
    action.type = "shell_run" /\ IsDangerousShellCmd(action.command)

\* f"{max_risk:.2f}" of a risk score given in tenths
Format2f(tenths) ==
    IF tenths >= 10 THEN ToString(tenths \div 10) \o "." \o ToString(tenths % 10) \o "0"
    ELSE "0." \o ToString(tenths) \o "0"

RECURSIVE Join(_, _)
\* sep.join(reasons)
Join(sep, reasons) ==
    IF reasons = <<>> THEN ""
    ELSE IF Len(reasons) = 1 THEN reasons[1]
    ELSE reasons[1] \o sep \o Join(sep, Tail(reasons))

\* max(step.risk_score for step in plan.steps) of a plan with steps
MaxStepRisk(steps) ==
    CHOOSE r \in {steps[i].risk_score : i \in 1..Len(steps)} :
        \A i \in 1..Len(steps) : steps[i].risk_score <= r

\* the reasons list assess_plan builds
PlanReasons(config, steps) ==
    LET max_risk == MaxStepRisk(steps)
        delete_count == Cardinality({i \in 1..Len(steps) : steps[i].type = "fs_delete"})
        has_dangerous_shell == \E i \in 1..Len(steps) : IsDangerousShell(steps[i])
    IN  (IF max_risk > config.auto_approve_max
         THEN <<"High risk action (score: " \o Format2f(max_risk) \o ")">> ELSE <<>>)
        \o (IF delete_count > config.delete_file_max
            THEN <<"Too many file deletions (" \o ToString(delete_count) \o ")">> ELSE <<>>)
        \o (IF has_dangerous_shell
            THEN <<"Dangerous shell command detected">> ELSE <<>>)

\* ApprovalSystem.assess_plan that approves as soon as the risk is low
AssessPlanRiskOnly(config, steps) ==
    IF steps = <<>>
    THEN ApprovalDecision(FALSE, 0, "Plan has no steps", FALSE)
    ELSE IF MaxStepRisk(steps) <= config.auto_approve_max
    THEN ApprovalDecision(TRUE, MaxStepRisk(steps), "Low risk, auto-approved", FALSE)
    ELSE ApprovalDecision(FALSE, MaxStepRisk(steps),
                          Join("; ", PlanReasons(config, steps)), TRUE)

\* ApprovalSystem.assess_plan that treats the empty plan like any other
AssessPlanNoEmptyCase(config, steps) ==
    LET reasons == IF steps = <<>> THEN <<>> ELSE PlanReasons(config, steps)
        max_risk == IF steps = <<>> THEN 0 ELSE MaxStepRisk(steps)
    IN  IF reasons = <<>>
        THEN ApprovalDecision(TRUE, max_risk, "Low risk, auto-approved", FALSE)
        ELSE ApprovalDecision(FALSE, max_risk, Join("; ", reasons), TRUE)

\* ApprovalSystem.assess_plan of an ApprovalSystem built from config
assess_plan(config, steps) ==
    IF steps = <<>>
    THEN ApprovalDecision(FALSE, 0, "Plan has no steps", FALSE)
    ELSE LET reasons == PlanReasons(config, steps)
         IN  IF reasons = <<>>
             THEN ApprovalDecision(TRUE, MaxStepRisk(steps), "Low risk, auto-approved", FALSE)
             ELSE ApprovalDecision(FALSE, MaxStepRisk(steps), Join("; ", reasons), TRUE)

\* ---- calls of assess_plan and assess_action ----
\* the longest plan assessed
MaxPlanLen == 4

\* the configurations ApprovalSystem is built from: the default and the ends
\* of the two ranges
RiskConfigs ==
    {RiskConfig(a, d) : a \in {0, auto_approve_max, 10}, d \in {0, delete_file_max}}

\* the actions assessed: deletions of low and high risk, shell commands with
\* and without a dangerous pattern, and a write that quotes one
AssessedActions ==
    {Action("fs_delete", 1, "a.txt", ""),
     Action("fs_delete", 9, "a.txt", ""),
     Action("fs_write", 3, "a.txt", "sudo"),
     Action("fs_edit", 4, "a.txt", ""),
     Action("shell_run", 2, "", "git rm -rf build"),
     Action("shell_run", 9, "", "SUDO make"),
     Action("shell_run", 0, "", "pytest -q")}

\* the plans assessed (their step lists)
AssessedPlans ==
    UNION {[1..n -> AssessedActions] : n \in 0..MaxPlanLen}

\* no decision yet
NoDecision == ApprovalDecision(FALSE, 0, None, FALSE)

NoAssessCall ==
    [fn |-> None, config |-> RiskConfig(auto_approve_max, delete_file_max),
     steps |-> <<>>, action |-> NoAction, decision |-> NoDecision]

AssessIdle == assess_call = NoAssessCall

\* the calls to make: assess_plan of an ApprovalSystem built from config, and
\* assess_action of the ApprovalSystem CodingAgent builds
AssessInputs ==
    {[fn |-> "assess_plan", config |-> config, steps |-> steps,
      action |-> NoAction, decision |-> NoDecision] :
         config \in RiskConfigs, steps \in AssessedPlans}
    \cup {[fn |-> "assess_action",
           config |-> RiskConfig(auto_approve_max, delete_file_max),
           steps |-> <<>>, action |-> action, decision |-> NoDecision] :
              action \in AssessedActions}

\* approval_system.assess_plan(plan)
AssessPlan ==
    /\ assess_call.fn = "assess_plan"
    /\ assess_call.decision = NoDecision
    /\ assess_call' = [assess_call EXCEPT
                          !.decision = assess_plan(assess_call.config, assess_call.steps)]
    /\ UNCHANGED <<shellVars, fsVars, loopVars, observeVars, execVars, chatVars,
                   contextVars>>

\* approval_system.assess_action(action)
AssessAction ==
    /\ assess_call.fn = "assess_action"
    /\ assess_call.decision = NoDecision
    /\ assess_call' = [assess_call EXCEPT !.decision = assess_action(assess_call.action)]
    /\ UNCHANGED <<shellVars, fsVars, loopVars, observeVars, execVars, chatVars,
                   contextVars>>

ApprovalNext == AssessPlan \/ AssessAction

(***************************************************************************)
(* CodingAgent.observe and CodingAgent.agent_loop (agent/core.py)          *)
(***************************************************************************)
\* ---- bounds of the orchestration loop ----
MaxIter == 2
MaxSteps == 2

WriteAction == Action("fs_write", 1, "a.txt", "")
DeleteAction == Action("fs_delete", 9, "a.txt", "")
ShellAction == Action("shell_run", 2, "", "git rm -rf build")
EditAction == Action("fs_edit", 1, "a.txt", "")
TestAction == Action("shell_run", 9, "", "pytest -q")

\* the plans LLMClient.plan can return (their step lists)
Plans ==
    {<<>>, <<WriteAction>>, <<DeleteAction, ShellAction>>,
     <<ShellAction, WriteAction, DeleteAction>>}

\* the fix plans LLMClient.reflect can return (their step lists)
FixPlans ==
    {<<>>, <<EditAction>>, <<EditAction, TestAction>>,
     <<EditAction, TestAction, WriteAction>>}

ExecutionResult(success, message, diff) ==
    [success |-> success, message |-> message, diff |-> diff]

\* what Executor.execute(action) can return: the adapter's success, or a
\* failure the adapter reports; a shell command ShellTool refuses always fails
ExecuteOutcomes(action) ==
    IF action.type = "shell_run" /\ ValidateCommand(action.command) # None
    THEN {ExecutionResult(FALSE, "Command rejected: " \o ValidateCommand(action.command), "")}
    ELSE {ExecutionResult(TRUE, "Done " \o action.type,
              IF action.type \in {"fs_write", "fs_edit", "fs_insert_lines"}
              THEN GenerateDiff("", "x\n", action.path) ELSE ""),
          ExecutionResult(FALSE, "File not found: " \o action.path, ""),
          ExecutionResult(FALSE, "Permission denied", "")}

\* observe: error_type with the test for 'permission' made first
ErrorTypePermissionFirst(result) ==
    LET message_lower == Lower(result.message)
    IN  IF result.success THEN None
        ELSE IF Contains(message_lower, "permission") THEN "PermissionError"
        ELSE IF Contains(message_lower, "import") THEN "ImportError"
        ELSE IF Contains(message_lower, "syntax") THEN "SyntaxError"
        ELSE IF Contains(message_lower, "not found")
                \/ Contains(message_lower, "does not exist") THEN "FileNotFoundError"
        ELSE "UnknownError"

\* observe: the error_type it infers from the message of a failed result
ErrorType(result) ==
    LET message_lower == Lower(result.message)
    IN  IF result.success THEN None
        ELSE IF Contains(message_lower, "import") THEN "ImportError"
        ELSE IF Contains(message_lower, "syntax") THEN "SyntaxError"
        ELSE IF Contains(message_lower, "not found")
                \/ Contains(message_lower, "does not exist") THEN "FileNotFoundError"
        ELSE IF Contains(message_lower, "permission") THEN "PermissionError"
        ELSE "UnknownError"

\* observe: can_retry that also gives up on an UnknownError
CanRetryKnownOnly(error_type) == error_type \notin {"PermissionError", "UnknownError"}

\* observe: can_retry
CanRetry(error_type) == error_type \notin {"PermissionError"}

\* observe: affected_files
AffectedFiles(action) ==
    IF StartsAt(action.type, 1, "fs_") /\ action.path # ""
    THEN <<action.path>> ELSE <<>>

\* observe: context_update filled in for failed results too
ContextUpdateOnFailure(action, result) ==
    IF action.type = "fs_write" THEN {<<"file_created", action.path>>}
    ELSE IF action.type \in {"fs_edit", "fs_insert_lines"}
         THEN {<<"file_modified", action.path>>}
    ELSE IF action.type = "fs_delete" THEN {<<"file_deleted", action.path>>}
    ELSE {}

\* observe: context_update, a dict given as its set of (key, value) pairs
ContextUpdate(action, result) ==
    IF ~result.success THEN {}
    ELSE IF action.type = "fs_write" THEN {<<"file_created", action.path>>}
    ELSE IF action.type \in {"fs_edit", "fs_insert_lines"}
         THEN {<<"file_modified", action.path>>}
    ELSE IF action.type = "fs_delete" THEN {<<"file_deleted", action.path>>}
    ELSE {}

\* CodingAgent.observe
observe(action, result) ==
    [action_type |-> action.type,
     success |-> result.success,
     message |-> result.message,
     error_type |-> ErrorType(result),
     affected_files |-> AffectedFiles(action),
     diff |-> IF result.success THEN result.diff ELSE None,
     can_retry |-> CanRetry(ErrorType(result)),
     context_update |-> ContextUpdate(action, result)]

NoObservation == observe(NoAction, ExecutionResult(TRUE, "", ""))

\* SessionState.add_action_result with the list replaced by its new entry
AddActionResultRewrites(log, action_type, result) ==
    <<[type |-> action_type, result |-> result]>>

\* SessionState.add_action_result (the timestamp is left out)
AddActionResult(log, action_type, result) ==
    Append(log, [type |-> action_type, result |-> result])

\* SessionState.add_diff called without the test `if observation.diff`
AddDiffAlways(log, diff) == Append(log, diff)

\* SessionState.add_diff
AddDiff(log, diff) == IF diff \notin {None, ""} THEN Append(log, diff) ELSE log

\* one entry of the history of external calls: the planner, the executor
\* (for a batch action or a fix action), the reflector, the verifier.
\* iteration is the 1-based iteration, index the batch action concerned (for
\* the verifier: the length of the batch), success whether the call returned
\* success (the planner and the reflector: returned at all; the verifier:
\* status 'pass'), can_retry the observation's can_retry
Call(kind, action, fix, iter, index, success, can_retry) ==
    [kind |-> kind, action |-> action, fix |-> fix, iteration |-> iter,
     index |-> index, success |-> success, can_retry |-> can_retry]

\* lines 345-387: what the loop does with the observation of a batch action
FailureBranchNoAbort(obs) ==
    IF obs.success THEN "continue"
    ELSE IF obs.can_retry THEN "reflect"
    ELSE "continue"

\* lines 345-387 without the reflection: every failure ends the run
FailureBranchNoReflect(obs) ==
    IF obs.success THEN "continue" ELSE "return"

FailureBranch(obs) ==
    IF obs.success THEN "continue"
    ELSE IF obs.can_retry THEN "reflect"
    ELSE "return"

\* line 356 with a fix plan without steps ending the run
ReflectionBranchAborts(fix_plan) ==
    IF fix_plan # <<>> THEN "fix" ELSE "return"

\* line 356: `if reflection.fix_plan and reflection.fix_plan.steps`; there is
\* no else, a fix plan without steps lets the batch go on
ReflectionBranch(fix_plan) ==
    IF fix_plan # <<>> THEN "fix" ELSE "continue"

\* lines 362-379: what the loop over the fix actions does with a fix result
FixBranchTriesNext(fix_result) ==
    IF fix_result.success THEN "break" ELSE "next"

FixBranchKeepsFixing(fix_result) ==
    IF fix_result.success THEN "next" ELSE "return"

FixBranch(fix_result) ==
    IF fix_result.success THEN "break" ELSE "return"

\* lines 348 and 380-383: an exception of the reflector is caught
ReflectorExceptionPropagates == "propagates"

ReflectorException == "caught"

\* lines 416-419: what the loop does with the verification status
VerifyBranchNeverBreaks(status) == "continue"

VerifyBranchAlwaysBreaks(status) == "break"

VerifyBranch(status) == IF status = "pass" THEN "break" ELSE "continue"

\* the values of the loop's variables while agent_loop is not running
LoopIdle ==
    /\ pc = "idle"
    /\ iteration = 0
    /\ initial_plan = <<>>
    /\ current_plan = <<>>
    /\ actions_to_execute = <<>>
    /\ action_idx = 0
    /\ observation = NoObservation
    /\ fix_steps = <<>>
    /\ results = [success |-> TRUE, iterations |-> 0, steps_executed |-> 0,
                  steps |-> <<>>, observations |-> <<>>, self_corrections |-> 0]
    /\ executed_actions = <<>>
    /\ diffs = <<>>
    /\ verification_results = <<>>
    /\ calls = <<>>
    /\ raised = FALSE

\* agent_loop, lines 285-299: the initial plan is requested and becomes
\* state.current_plan; results is initialised
Start ==
    /\ pc = "idle"
    /\ \E plan \in Plans :
          /\ initial_plan' = plan
          /\ current_plan' = <<plan>>
          /\ calls' = Append(calls, Call("planner", NoAction, FALSE, 0, 0, TRUE, TRUE))
    /\ results' = [success |-> TRUE, iterations |-> 0, steps_executed |-> 0,
                   steps |-> <<>>, observations |-> <<>>, self_corrections |-> 0]
    /\ iteration' = 0
    /\ pc' = "iterate"
    /\ UNCHANGED <<max_iterations, steps_per_iteration, actions_to_execute,
                   action_idx, observation, fix_steps, executed_actions, diffs,
                   verification_results, raised, shellVars, auxVars, fsVars,
                   sessionVars>>

\* lines 314-316 without the break: an empty batch goes on to verification
TakeBatchNoBreak(batch) ==
    /\ actions_to_execute' = batch
    /\ IF batch = <<>>
       THEN pc' = "verify" /\ action_idx' = 0
       ELSE pc' = "execute" /\ action_idx' = 1

\* lines 314-316 with the loop started over instead of left
TakeBatchStartsOver(batch) ==
    /\ actions_to_execute' = batch
    /\ IF batch = <<>>
       THEN pc' = "iterate" /\ action_idx' = 0
       ELSE pc' = "execute" /\ action_idx' = 1

\* the batch is chosen: empty ends the loop, else its first action is next
TakeBatch(batch) ==
    /\ actions_to_execute' = batch
    /\ IF batch = <<>>
       THEN pc' = "done" /\ action_idx' = 0
       ELSE pc' = "execute" /\ action_idx' = 1

\* the slice left out: the whole step list
FirstStepsAll(steps, n) == steps

\* plan.steps[:n] for n >= 0
FirstSteps(steps, n) == SubSeq(steps, 1, IF Len(steps) < n THEN Len(steps) ELSE n)

\* `for iteration in range(max_iterations)` is exhausted: return results
LoopExhausted ==
    /\ pc = "iterate"
    /\ iteration >= max_iterations
    /\ pc' = "done"
    /\ UNCHANGED <<max_iterations, steps_per_iteration, iteration, initial_plan,
                   current_plan, actions_to_execute, action_idx, observation,
                   fix_steps, results, executed_actions, diffs,
                   verification_results, calls, raised, shellVars, auxVars, fsVars,
                   sessionVars>>

\* iteration 0: the first steps_per_iteration steps of the initial plan
FirstIteration ==
    /\ pc = "iterate"
    /\ iteration < max_iterations
    /\ iteration = 0
    /\ results' = [results EXCEPT !.iterations = iteration + 1]
    /\ TakeBatch(FirstSteps(initial_plan, steps_per_iteration))
    /\ UNCHANGED <<max_iterations, steps_per_iteration, iteration, initial_plan,
                   current_plan, observation, fix_steps, executed_actions, diffs,
                   verification_results, calls, raised, shellVars, auxVars, fsVars,
                   sessionVars>>

\* lines 309-312 with the incremental plan made the current plan
CurrentPlanReplaced(plan, next_plan) == <<next_plan>>

\* lines 309-312: next_plan is a local; state.current_plan, an Optional[Plan]
\* given as the sequence of at most one step list, is not assigned
CurrentPlanAfter(plan, next_plan) == plan

\* later iterations: plan_next_steps asks the planner and cuts its plan to
\* max_steps steps
PlanNextSteps ==
    /\ pc = "iterate"
    /\ iteration < max_iterations
    /\ iteration > 0
    /\ results' = [results EXCEPT !.iterations = iteration + 1]
    /\ \E plan \in Plans :
          /\ TakeBatch(FirstSteps(plan, steps_per_iteration))
          /\ current_plan' = CurrentPlanAfter(current_plan, FirstSteps(plan, steps_per_iteration))
    /\ calls' = Append(calls, Call("planner", NoAction, FALSE, iteration + 1, 0, TRUE, TRUE))
    /\ UNCHANGED <<max_iterations, steps_per_iteration, iteration, initial_plan,
                   observation, fix_steps, executed_actions, diffs,
                   verification_results, raised, shellVars, auxVars, fsVars,
                   sessionVars>>

\* the loop over the batch with a failed action tried again after its fix
AdvanceRetries ==
    IF ~observation.success
    THEN pc' = "execute" /\ action_idx' = action_idx
    ELSE IF action_idx < Len(actions_to_execute)
    THEN pc' = "execute" /\ action_idx' = action_idx + 1
    ELSE pc' = "verify" /\ action_idx' = action_idx

\* the batch action at action_idx is dealt with: on to the next, or to
\* verification after the last
Advance ==
    IF action_idx < Len(actions_to_execute)
    THEN pc' = "execute" /\ action_idx' = action_idx + 1
    ELSE pc' = "verify" /\ action_idx' = action_idx

\* lines 319-387 up to the reflector call: execute, observe, track, and
\* branch on the observation
ExecuteAction ==
    /\ pc = "execute"
    /\ LET action == actions_to_execute[action_idx]
       IN  \E exec_result \in ExecuteOutcomes(action) :
             LET obs == observe(action, exec_result)
                 step_result == [step |-> results.steps_executed + 1,
                                 action_type |-> action.type,
                                 success |-> obs.success,
                                 message |-> obs.message,
                                 diff |-> obs.diff]
                 tracked == [results EXCEPT
                                !.steps = Append(@, step_result),
                                !.observations = Append(@, obs),
                                !.steps_executed = @ + 1]
             IN  /\ observation' = obs
                 /\ calls' = Append(calls, Call("executor", action, FALSE, results.iterations,
                                                action_idx, obs.success, obs.can_retry))
                 /\ executed_actions' = AddActionResult(executed_actions, action.type, step_result)
                 /\ diffs' = AddDiff(diffs, obs.diff)
                 /\ CASE FailureBranch(obs) = "reflect" ->
                            /\ results' = tracked
                            /\ pc' = "reflect"
                            /\ UNCHANGED action_idx
                      [] FailureBranch(obs) = "return" ->
                            /\ results' = [tracked EXCEPT !.success = FALSE]
                            /\ pc' = "done"
                            /\ UNCHANGED action_idx
                      [] OTHER ->
                            /\ results' = tracked
                            /\ Advance
    /\ UNCHANGED <<max_iterations, steps_per_iteration, iteration, initial_plan,
                   current_plan, actions_to_execute, fix_steps,
                   verification_results, raised, shellVars, auxVars, fsVars,
                   sessionVars>>

\* lines 348-353 and 380-383: llm_client.reflect raises; the exception is
\* caught and ends the run
ReflectRaises ==
    /\ pc = "reflect"
    /\ calls' = Append(calls, Call("reflector", NoAction, FALSE, results.iterations,
                                   action_idx, FALSE, TRUE))
    /\ IF ReflectorException = "caught"
       THEN /\ results' = [results EXCEPT !.success = FALSE]
            /\ pc' = "done"
            /\ UNCHANGED raised
       ELSE /\ pc' = "raised"
            /\ raised' = TRUE
            /\ UNCHANGED results
    /\ UNCHANGED <<max_iterations, steps_per_iteration, iteration, initial_plan,
                   current_plan, actions_to_execute, action_idx, observation,
                   fix_steps, executed_actions, diffs, verification_results,
                   shellVars, auxVars, fsVars,
                   sessionVars>>

\* lines 348-359: the reflector returns a fix plan; a plan with steps counts
\* as a self-correction and its first two steps are the fix actions
Reflect ==
    /\ pc = "reflect"
    /\ calls' = Append(calls, Call("reflector", NoAction, FALSE, results.iterations,
                                   action_idx, TRUE, TRUE))
    /\ \E fix_plan \in FixPlans :
          CASE ReflectionBranch(fix_plan) = "fix" ->
                  /\ results' = [results EXCEPT !.self_corrections = @ + 1]
                  /\ fix_steps' = FirstSteps(fix_plan, 2)
                  /\ pc' = "fix"
                  /\ UNCHANGED action_idx
            [] ReflectionBranch(fix_plan) = "return" ->
                  /\ results' = [results EXCEPT !.success = FALSE]
                  /\ pc' = "done"
                  /\ UNCHANGED <<action_idx, fix_steps>>
            [] OTHER ->
                  /\ Advance
                  /\ UNCHANGED <<results, fix_steps>>
    /\ UNCHANGED <<max_iterations, steps_per_iteration, iteration, initial_plan,
                   current_plan, actions_to_execute, observation, executed_actions,
                   diffs, verification_results, raised, shellVars, auxVars, fsVars,
                   sessionVars>>

\* lines 359-379: one round of `for fix_action in fix_plan.steps[:2]`: the
\* fix action is executed; success ends the fix attempt (break), failure
\* ends the run (return)
ExecuteFix ==
    /\ pc = "fix"
    /\ fix_steps # <<>>
    /\ LET fix_action == Head(fix_steps)
       IN  \E fix_result \in ExecuteOutcomes(fix_action) :
             /\ calls' = Append(calls, Call("executor", fix_action, TRUE, results.iterations,
                                            action_idx, fix_result.success, TRUE))
             /\ CASE FixBranch(fix_result) = "break" ->
                        /\ results' = [results EXCEPT
                               !.observations = Append(@, observe(fix_action, fix_result))]
                        /\ fix_steps' = <<>>
                        /\ Advance
                  [] FixBranch(fix_result) = "return" ->
                        /\ results' = [results EXCEPT !.success = FALSE]
                        /\ fix_steps' = <<>>
                        /\ pc' = "done"
                        /\ UNCHANGED action_idx
                  [] OTHER ->
                        \* the for loop goes on with the next fix action
                        /\ results' = IF fix_result.success
                                      THEN [results EXCEPT !.observations =
                                               Append(@, observe(fix_action, fix_result))]
                                      ELSE results
                        /\ fix_steps' = Tail(fix_steps)
                        /\ IF Tail(fix_steps) = <<>>
                           THEN Advance
                           ELSE pc' = "fix" /\ UNCHANGED action_idx
    /\ UNCHANGED <<max_iterations, steps_per_iteration, iteration, initial_plan,
                   current_plan, actions_to_execute, observation, executed_actions,
                   diffs, verification_results, raised, shellVars, auxVars, fsVars,
                   sessionVars>>

\* lines 414-419 with verify_changes: one verification after the batch; a
\* pass ends the loop
Verify ==
    /\ pc = "verify"
    /\ \E status \in {"pass", "fail"} :
          /\ verification_results' = Append(verification_results, status)
          /\ calls' = Append(calls, Call("verifier", NoAction, FALSE, results.iterations,
                                         Len(actions_to_execute), status = "pass", TRUE))
          /\ IF VerifyBranch(status) = "break"
             THEN /\ results' = IF status = "pass"
                                THEN [results EXCEPT !.success = TRUE] ELSE results
                  /\ pc' = "done"
                  /\ UNCHANGED iteration
             ELSE /\ iteration' = iteration + 1
                  /\ pc' = "iterate"
                  /\ UNCHANGED results
    /\ UNCHANGED <<max_iterations, steps_per_iteration, initial_plan,
                   current_plan, actions_to_execute, action_idx, observation,
                   fix_steps, executed_actions, diffs, raised, shellVars, auxVars, fsVars,
                   sessionVars>>

\* llm_client.plan raises (a response that fails validation): nothing in
\* agent_loop catches it
PlannerRaises ==
    /\ \/ pc = "idle"
       \/ pc = "iterate" /\ iteration < max_iterations /\ iteration > 0
    /\ calls' = Append(calls, Call("planner", NoAction, FALSE,
                                   IF pc = "idle" THEN 0 ELSE iteration + 1, 0, FALSE, TRUE))
    /\ results' = IF pc = "idle" THEN results
                  ELSE [results EXCEPT !.iterations = iteration + 1]
    /\ pc' = "raised"
    /\ raised' = TRUE
    /\ UNCHANGED <<max_iterations, steps_per_iteration, iteration, initial_plan,
                   current_plan, actions_to_execute, action_idx, observation,
                   fix_steps, executed_actions, diffs, verification_results,
                   shellVars, auxVars, fsVars,
                   sessionVars>>

(***************************************************************************)
(* The other operations of CodingAgent on the session (agent/core.py):     *)
(* plan, execute_plan, verify_changes, reflect_and_fix, commit_changes     *)
(***************************************************************************)
\* ---- bounds of the session ----
\* an operation starts while fewer actions / verifications are recorded
MaxExecuted == 2
MaxVerified == 1
\* the largest max_retries
MaxRetries == 2

\* what an operation returns; the keys an operation does not set keep the
\* values given here
OpResult(op, success, message, attempts, steps, step_diffs) ==
    [op |-> op, success |-> success, message |-> message, attempts |-> attempts,
     steps |-> steps, diffs |-> step_diffs]

NoResult == OpResult(None, FALSE, "", 0, <<>>, <<>>)

SessionIdle ==
    /\ op_result = NoResult
    /\ attempt = 0
    /\ max_retries = 0

\* Executor._dry_run
DryRun(action) ==
    ExecutionResult(TRUE, "[DRY RUN] Would execute " \o action.type, "")

RECURSIVE PlanRunsNoStop(_, _)
\* the loop of execute_plan without the break at lines 120-122
PlanRunsNoStop(steps, dry_run) ==
    IF steps = <<>> THEN {<<>>}
    ELSE LET first == IF dry_run THEN {DryRun(Head(steps))}
                      ELSE ExecuteOutcomes(Head(steps))
         IN  {<<result>> \o rest : result \in first,
                                   rest \in PlanRunsNoStop(Tail(steps), dry_run)}

RECURSIVE PlanRuns(_, _)
\* the ways the loop of execute_plan can go: the results of the steps it
\* executes, the last of which alone may be a failure
PlanRuns(steps, dry_run) ==
    IF steps = <<>> THEN {<<>>}
    ELSE LET first == IF dry_run THEN {DryRun(Head(steps))}
                      ELSE ExecuteOutcomes(Head(steps))
         IN  UNION {IF result.success
                    THEN {<<result>> \o rest : rest \in PlanRuns(Tail(steps), dry_run)}
                    ELSE {<<result>>} : result \in first}

\* execute_plan, lines 101-107: the step_result of step i
StepResult(steps, run, i) ==
    [step |-> i, action_type |-> steps[i].type, success |-> run[i].success,
     message |-> run[i].message, diff |-> run[i].diff]

RECURSIVE RecordRun(_, _, _, _)
\* execute_plan, line 112, for the steps from i on
RecordRun(log, steps, run, i) ==
    IF i > Len(run) THEN log
    ELSE RecordRun(AddActionResult(log, steps[i].type, StepResult(steps, run, i)),
                   steps, run, i + 1)

RECURSIVE RecordDiffs(_, _, _)
\* execute_plan, lines 115-117, for the steps from i on
RecordDiffs(log, run, i) ==
    IF i > Len(run) THEN log
    ELSE RecordDiffs(AddDiff(log, run[i].diff), run, i + 1)

\* the dict execute_plan returns
PlanResult(steps, run) ==
    OpResult("execute_plan", \A i \in 1..Len(run) : run[i].success, "", 0,
             [i \in 1..Len(run) |-> StepResult(steps, run, i)],
             RecordDiffs(<<>>, run, 1))

\* a new operation is started on the session
Budget ==
    /\ Len(executed_actions) < MaxExecuted
    /\ Len(verification_results) < MaxVerified

\* the values of agent_loop's locals and of the call history once an
\* operation is over and the caller goes on with the session
Return ==
    /\ pc \in {"done", "raised", "rf_done"}
    /\ pc' = "idle"
    /\ iteration' = 0
    /\ initial_plan' = <<>>
    /\ actions_to_execute' = <<>>
    /\ action_idx' = 0
    /\ observation' = NoObservation
    /\ fix_steps' = <<>>
    /\ results' = [success |-> TRUE, iterations |-> 0, steps_executed |-> 0,
                   steps |-> <<>>, observations |-> <<>>, self_corrections |-> 0]
    /\ calls' = <<>>
    /\ raised' = FALSE
    /\ attempt' = 0
    /\ UNCHANGED <<max_iterations, steps_per_iteration, current_plan,
                   executed_actions, diffs, verification_results, op_result,
                   max_retries, shellVars, auxVars, fsVars>>

\* CodingAgent.plan: the plan becomes state.current_plan, or the planner's
\* exception leaves the operation
PlanOp ==
    /\ pc = "idle"
    /\ \/ /\ \E plan \in Plans : current_plan' = <<plan>>
          /\ op_result' = OpResult("plan", TRUE, "", 0, <<>>, <<>>)
          /\ UNCHANGED <<pc, raised>>
       \/ /\ pc' = "raised"
          /\ raised' = TRUE
          /\ UNCHANGED <<current_plan, op_result>>
    /\ UNCHANGED <<max_iterations, steps_per_iteration, iteration, initial_plan,
                   actions_to_execute, action_idx, observation, fix_steps,
                   results, executed_actions, diffs, verification_results, calls,
                   attempt, max_retries, shellVars, auxVars, fsVars>>

\* CodingAgent.execute_plan(plan, dry_run)
ExecutePlan ==
    /\ pc = "idle"
    /\ Budget
    /\ \E plan \in Plans, dry_run \in BOOLEAN :
          \E run \in PlanRuns(plan, dry_run) :
             /\ executed_actions' = RecordRun(executed_actions, plan, run, 1)
             /\ diffs' = RecordDiffs(diffs, run, 1)
             /\ op_result' = PlanResult(plan, run)
    /\ UNCHANGED <<pc, max_iterations, steps_per_iteration, iteration,
                   initial_plan, current_plan, actions_to_execute, action_idx,
                   observation, fix_steps, results, verification_results, calls,
                   raised, attempt, max_retries, shellVars, auxVars, fsVars>>

\* CodingAgent.verify_changes
VerifyChanges ==
    /\ pc = "idle"
    /\ Budget
    /\ \E status \in {"pass", "fail"} :
          /\ verification_results' = Append(verification_results, status)
          /\ op_result' = OpResult("verify_changes", status = "pass", status, 0, <<>>, <<>>)
    /\ UNCHANGED <<pc, max_iterations, steps_per_iteration, iteration,
                   initial_plan, current_plan, actions_to_execute, action_idx,
                   observation, fix_steps, results, executed_actions, diffs,
                   calls, raised, attempt, max_retries, shellVars, auxVars, fsVars>>

\* CodingAgent.commit_changes: the commit succeeds (the artifacts are then
\* saved from the session state, which is only read) or fails
CommitChanges ==
    /\ pc = "idle"
    /\ \E committed \in BOOLEAN :
          op_result' = OpResult("commit_changes", committed, "", 0, <<>>, <<>>)
    /\ UNCHANGED <<pc, max_iterations, steps_per_iteration, iteration,
                   initial_plan, current_plan, actions_to_execute, action_idx,
                   observation, fix_steps, results, executed_actions, diffs,
                   verification_results, calls, raised, attempt, max_retries,
                   shellVars, auxVars, fsVars>>

\* reflect_and_fix(max_retries), lines 134-135: without a current plan it
\* returns at once, else the loop over the attempts starts
RfStart ==
    /\ pc = "idle"
    /\ Budget
    /\ \E retries \in 0..MaxRetries : max_retries' = retries
    /\ attempt' = 0
    /\ IF current_plan = <<>>
       THEN /\ op_result' = OpResult("reflect_and_fix", FALSE, "No plan to reflect on",
                                     0, <<>>, <<>>)
            /\ pc' = "rf_done"
       ELSE /\ pc' = "rf_verify"
            /\ UNCHANGED op_result
    /\ UNCHANGED <<max_iterations, steps_per_iteration, iteration, initial_plan,
                   current_plan, actions_to_execute, action_idx, observation,
                   fix_steps, results, executed_actions, diffs,
                   verification_results, calls, raised, shellVars, auxVars, fsVars>>

\* lines 137 and 159-163: `for attempt in range(max_retries)` is exhausted
RfExhausted ==
    /\ pc = "rf_verify"
    /\ attempt >= max_retries
    /\ op_result' = OpResult("reflect_and_fix", FALSE,
                             "Max retries (" \o ToString(max_retries) \o ") exceeded",
                             max_retries, <<>>, <<>>)
    /\ pc' = "rf_done"
    /\ UNCHANGED <<max_iterations, steps_per_iteration, iteration, initial_plan,
                   current_plan, actions_to_execute, action_idx, observation,
                   fix_steps, results, executed_actions, diffs,
                   verification_results, calls, raised, attempt, max_retries,
                   shellVars, auxVars, fsVars>>

\* lines 138-142: the attempt verifies first; a pass is the success
RfVerify ==
    /\ pc = "rf_verify"
    /\ attempt < max_retries
    /\ \E status \in {"pass", "fail"} :
          /\ verification_results' = Append(verification_results, status)
          /\ calls' = Append(calls, Call("verifier", NoAction, FALSE, attempt + 1, 0,
                                         status = "pass", TRUE))
          /\ IF status = "pass"
             THEN /\ op_result' = OpResult("reflect_and_fix", TRUE, "Verification passed",
                                           attempt + 1, <<>>, <<>>)
                  /\ pc' = "rf_done"
             ELSE /\ pc' = "rf_reflect"
                  /\ UNCHANGED op_result
    /\ UNCHANGED <<max_iterations, steps_per_iteration, iteration, initial_plan,
                   current_plan, actions_to_execute, action_idx, observation,
                   fix_steps, results, executed_actions, diffs, raised, attempt,
                   max_retries, shellVars, auxVars, fsVars>>

\* lines 145-147: llm_client.reflect raises; nothing in reflect_and_fix
\* catches it
RfReflectRaises ==
    /\ pc = "rf_reflect"
    /\ calls' = Append(calls, Call("reflector", NoAction, FALSE, attempt + 1, 0, FALSE, TRUE))
    /\ pc' = "raised"
    /\ raised' = TRUE
    /\ UNCHANGED <<max_iterations, steps_per_iteration, iteration, initial_plan,
                   current_plan, actions_to_execute, action_idx, observation,
                   fix_steps, results, executed_actions, diffs,
                   verification_results, op_result, attempt, max_retries,
                   shellVars, auxVars, fsVars>>

\* lines 145-157: the reflector's fix plan is executed by execute_plan; a
\* failed step ends reflect_and_fix, else the next attempt follows
RfFix ==
    /\ pc = "rf_reflect"
    /\ \E fix_plan \in FixPlans :
          \E run \in PlanRuns(fix_plan, FALSE) :
             /\ executed_actions' = RecordRun(executed_actions, fix_plan, run, 1)
             /\ diffs' = RecordDiffs(diffs, run, 1)
             /\ calls' = Append(calls, Call("reflector", NoAction, FALSE, attempt + 1, 0,
                                            TRUE, TRUE))
                          \o [i \in 1..Len(run) |->
                                 Call("executor", fix_plan[i], TRUE, attempt + 1, i,
                                      run[i].success, TRUE)]
             /\ IF PlanResult(fix_plan, run).success
                THEN /\ attempt' = attempt + 1
                     /\ pc' = "rf_verify"
                     /\ UNCHANGED op_result
                ELSE /\ op_result' = OpResult("reflect_and_fix", FALSE,
                                              "Fix attempt " \o ToString(attempt + 1) \o " failed",
                                              attempt + 1, <<>>, <<>>)
                     /\ pc' = "rf_done"
                     /\ UNCHANGED attempt
    /\ UNCHANGED <<max_iterations, steps_per_iteration, iteration, initial_plan,
                   current_plan, actions_to_execute, action_idx, observation,
                   fix_steps, results, verification_results, raised, max_retries,
                   shellVars, auxVars, fsVars>>

ShellInit ==
    shell_call = NoShellCall

ShellNext ==
    \E command \in Commands, timeout \in Timeouts : ShellRun(command, timeout)

\* C3: ShellTool.run never starts a subprocess for a command whose first
\* whitespace-delimited token, cut to what follows its last '/', is not in the
\* allowlist (the blank command included); the call returns success=false
\* and exit_code=-1, whether or not a dangerous pattern matches.
ShellAllowlistEnforced ==
    (shell_call.command # None
       /\ BaseCommand(FirstWord(shell_call.command)) \notin allowlist)
    => /\ ~shell_call.started
       /\ ~shell_call.success
       /\ shell_call.exit_code = -1

\* a command outside the allowlist that no dangerous pattern matches was rejected
ShellAllowlistWitness ==
    /\ shell_call.command = "./evil"
    /\ DangerousReason(shell_call.command) = None
    /\ ~shell_call.started
    /\ shell_call.exit_code = -1

\* C4: ShellTool.run never starts a subprocess for a command whose full
\* string matches a dangerous pattern (rm -rf on a path from the root, curl
\* or wget piped to bash, sudo, redirect into /dev/), even when the first
\* token is allowlisted; the call returns success=false.
ShellDangerousRejected ==
    (shell_call.command # None
       /\ \/ MatchRmRfRoot(shell_call.command)
          \/ MatchPipeToBash(shell_call.command, "curl")
          \/ MatchPipeToBash(shell_call.command, "wget")
          \/ MatchSudo(shell_call.command)
          \/ MatchDevWrite(shell_call.command))
    => /\ ~shell_call.started
       /\ ~shell_call.success

\* an allowlisted first token followed by a recursive delete from the root
ShellDangerousWitness ==
    /\ shell_call.command = "git status; rm -rf /home"
    /\ BaseCommand(FirstWord(shell_call.command)) \in allowlist
    /\ shell_call.message = "Command rejected: Dangerous recursive delete"
    /\ ~shell_call.started

ShellIdle == shell_call = NoShellCall

(***************************************************************************)
(* Executor (agent/executor.py) with the four adapters behind it           *)
(***************************************************************************)
\* the values of an action's args; `given` of the action names the keys that
\* are in the dict, the value of a key that is not given is never read
BaseArgs ==
    [path |-> "a.txt", content |-> "x", old_text |-> "ab", new_text |-> "c",
     line_number |-> 1, operation |-> "replace", command |-> "pytest -q",
     timeout |-> 5, language |-> "python", packages |-> <<"requests">>,
     branch |-> "dev", create |-> TRUE]

\* the args the actions are built from: usual ones, an empty path, an empty
\* content, an empty package list, a refused command, an unknown language
ArgValues ==
    {BaseArgs, [BaseArgs EXCEPT !.path = ""], [BaseArgs EXCEPT !.content = ""],
     [BaseArgs EXCEPT !.packages = <<>>], [BaseArgs EXCEPT !.command = "rm -rf /"],
     [BaseArgs EXCEPT !.language = "ruby"]}

\* the keys each _execute_* method reads from action.args
ArgKeys(type) ==
    CASE type = "fs_write" -> {"path", "content"}
      [] type = "fs_edit" -> {"path", "old_text", "new_text"}
      [] type = "fs_insert_lines" -> {"path", "line_number", "content", "operation"}
      [] type = "fs_delete" -> {"path"}
      [] type = "shell_run" -> {"command", "timeout"}
      [] type = "deps_install" -> {"language", "packages"}
      [] type = "git_checkout" -> {"branch", "create"}

\* the members of ActionType (llm/schemas.py)
ActionTypes ==
    {"fs_write", "fs_edit", "fs_insert_lines", "fs_delete", "shell_run",
     "deps_install", "git_checkout"}

\* an Action with its args dict
ExecAction(type, given, args) == [type |-> type, given |-> given, args |-> args]

ExecActions ==
    {ExecAction(type, given, args) :
        type \in ActionTypes, given \in SUBSET {"path", "content", "old_text",
            "new_text", "line_number", "operation", "command", "timeout",
            "language", "packages", "branch", "create"}, args \in ArgValues}

\* action.args.get(key) is None
IsNone(action, key) == key \notin action.given

\* `not action.args.get(key)` that is never true
NotArgNever(action, key) == FALSE

\* `not action.args.get(key)`: the key is not given, or its value is empty
NotArg(action, key) ==
    \/ key \notin action.given
    \/ IF key = "packages" THEN action.args.packages = <<>> ELSE action.args[key] = ""

\* no result yet
NoExecResult == ExecutionResult(FALSE, None, "")

NoExecCall ==
    [action |-> ExecAction(None, {}, BaseArgs), dry_run |-> FALSE,
     result |-> NoExecResult, adapter |-> None]

ExecIdle == exec_call = NoExecCall /\ installed = {} /\ branch = "main"

\* execute returns result after calling the adapter method `adapter` (None
\* when it called none)
Returns(result, adapter) ==
    exec_call' = [exec_call EXCEPT !.result = result, !.adapter = adapter]

\* `result.diff or ""`
DiffOrEmpty(diff) == IF diff = None THEN "" ELSE diff

\* a call of a FileSystemTool method made by the executor
ExecFs(op, path, args, outcome) ==
    /\ fs' = outcome.fs
    /\ fs_call' = [op |-> op, path |-> path, args |-> args, result |-> outcome.result]
    /\ Returns(ExecutionResult(outcome.result.success, outcome.result.message,
                               DiffOrEmpty(outcome.result.diff)), "fs_tool." \o op)
    /\ UNCHANGED <<shell_call, installed, branch>>

\* a guard clause: the ExecutionResult returned before any adapter is called
MissingArgument(message) ==
    /\ Returns(ExecutionResult(FALSE, message, ""), None)
    /\ UNCHANGED <<fs, fs_call, shell_call, installed, branch>>

\* Executor._execute_fs_write
ExecuteFsWrite(action) ==
    IF NotArg(action, "path") \/ IsNone(action, "content")
    THEN MissingArgument("Missing path or content")
    ELSE ExecFs("write", action.args.path, FsArgs(action.args.content, "", 0, ""),
                WriteOp(fs, action.args.path, action.args.content))

\* Executor._execute_fs_edit
ExecuteFsEdit(action) ==
    IF NotArg(action, "path") \/ IsNone(action, "old_text") \/ IsNone(action, "new_text")
    THEN MissingArgument("Missing path, old_text, or new_text")
    ELSE ExecFs("edit", action.args.path,
                FsArgs(action.args.new_text, action.args.old_text, 0, ""),
                EditOp(fs, action.args.path, action.args.old_text, action.args.new_text))

\* Executor._execute_fs_insert_lines
ExecuteFsInsertLines(action) ==
    LET operation == IF IsNone(action, "operation") THEN "after"
                     ELSE action.args.operation
    IN  IF NotArg(action, "path") \/ IsNone(action, "line_number")
              \/ IsNone(action, "content")
        THEN MissingArgument("Missing path, line_number, or content")
        ELSE ExecFs("insert_lines", action.args.path,
                    FsArgs(action.args.content, "", action.args.line_number, operation),
                    InsertLinesOp(fs, action.args.path, action.args.line_number,
                                  action.args.content, operation))

\* Executor._execute_fs_delete
ExecuteFsDelete(action) ==
    IF NotArg(action, "path")
    THEN MissingArgument("Missing path")
    ELSE ExecFs("delete", action.args.path, FsArgs("", "", 0, ""),
                DeleteOp(fs, action.args.path, now))

\* Executor._execute_shell_run
ExecuteShellRun(action) ==
    LET timeout == IF IsNone(action, "timeout") THEN <<>> ELSE <<action.args.timeout>>
    IN  IF NotArg(action, "command")
        THEN MissingArgument("Missing command")
        ELSE /\ ShellRunResult(action.args.command, timeout)
             /\ Returns(ExecutionResult(shell_call'.success, shell_call'.message, ""),
                        "shell_tool.run")
             /\ UNCHANGED <<fs, fs_call, installed, branch>>

\* DependencyTool.install(language, packages): an unknown language is
\* refused, otherwise the package manager installs the packages or fails
DepsInstall(language, packages) ==
    IF language \notin {"python", "node"}
    THEN /\ installed' = installed
         /\ Returns(ExecutionResult(FALSE, "Unknown language: " \o language, ""),
                    "deps_tool.install")
    ELSE \E ok \in BOOLEAN :
            /\ installed' = IF ok THEN installed \cup {packages[i] : i \in 1..Len(packages)}
                            ELSE installed
            /\ Returns(ExecutionResult(ok, IF ok THEN "Installed packages"
                                           ELSE "Installation failed", ""),
                       "deps_tool.install")

\* Executor._execute_deps_install
ExecuteDepsInstall(action) ==
    IF NotArg(action, "language") \/ NotArg(action, "packages")
    THEN MissingArgument("Missing language or packages")
    ELSE /\ DepsInstall(action.args.language, action.args.packages)
         /\ UNCHANGED <<fs, fs_call, shell_call, branch>>

\* GitTool.checkout_branch(branch_name, create): git checks the branch out or
\* fails
CheckoutBranch(branch_name, create) ==
    \E ok \in BOOLEAN :
        /\ branch' = IF ok THEN branch_name ELSE branch
        /\ Returns(ExecutionResult(ok, IF ok THEN "Checked out " \o branch_name
                                       ELSE "Error checking out branch", ""),
                   "git_tool.checkout_branch")

\* Executor._execute_git_checkout
ExecuteGitCheckout(action) ==
    LET create == IF IsNone(action, "create") THEN FALSE ELSE action.args.create
    IN  IF NotArg(action, "branch")
        THEN MissingArgument("Missing branch name")
        ELSE /\ CheckoutBranch(action.args.branch, create)
             /\ UNCHANGED <<fs, fs_call, shell_call, installed>>

\* the dispatch of Executor.execute on action.type
Dispatch(action) ==
    CASE action.type = "fs_write" -> ExecuteFsWrite(action)
      [] action.type = "fs_edit" -> ExecuteFsEdit(action)
      [] action.type = "fs_insert_lines" -> ExecuteFsInsertLines(action)
      [] action.type = "fs_delete" -> ExecuteFsDelete(action)
      [] action.type = "shell_run" -> ExecuteShellRun(action)
      [] action.type = "deps_install" -> ExecuteDepsInstall(action)
      [] action.type = "git_checkout" -> ExecuteGitCheckout(action)
      [] OTHER -> MissingArgument("Unknown action type: " \o action.type)

\* Executor.execute that does not look at dry_run
ExecuteIgnoresDryRun(action, dry_run) == Dispatch(action)

\* Executor.execute(action, dry_run)
Execute(action, dry_run) ==
    IF dry_run
    THEN /\ Returns(DryRun(action), None)
         /\ UNCHANGED <<fs, fs_call, shell_call, installed, branch>>
    ELSE Dispatch(action)

\* the calls to make
ExecInputs ==
    {[action |-> action, dry_run |-> dry_run, result |-> NoExecResult,
      adapter |-> None] :
         action \in {a \in ExecActions : a.given \subseteq ArgKeys(a.type)},
         dry_run \in BOOLEAN}

\* one call of executor.execute
ExecuteCall ==
    /\ exec_call.result = NoExecResult
    /\ exec_call.action.type # None
    /\ Execute(exec_call.action, exec_call.dry_run)
    /\ UNCHANGED <<now, fs_ops, loopVars, approvalVars, observeVars, chatVars,
                   contextVars>>

ExecNext == ExecuteCall

\* ---- calls of CodingAgent.observe ----
\* the messages of the results observed: each marker alone, in capitals,
\* several markers in one message, and none
ObservedMessages ==
    {"", "Command failed", "No module named x: ImportError", "IMPORT failed",
     "invalid syntax", "File not found: a.txt", "path does not exist",
     "Permission denied", "permission denied: import blocked",
     "Permission denied: file NOT FOUND", "syntax: file does not exist",
     "PERMISSION denied (invalid Syntax)"}

ObservedActions ==
    {Action(type, 1, path, "") : type \in ActionTypes, path \in {"", "a.txt"}}

ObservedResults ==
    {ExecutionResult(success, message, diff) :
        success \in BOOLEAN, message \in ObservedMessages, diff \in {"", "+x"}}

NoObsCall ==
    [action |-> NoAction, result |-> ExecutionResult(TRUE, "", ""),
     observation |-> NoObservation]

ObserveIdle == obs_call = NoObsCall

\* the calls to make
ObserveInputs ==
    {[action |-> action, result |-> result, observation |-> NoObservation] :
        action \in ObservedActions, result \in ObservedResults}

\* self.observe(action, result)
Observe ==
    /\ obs_call.action # NoAction
    /\ obs_call.observation = NoObservation
    /\ obs_call' = [obs_call EXCEPT !.observation = observe(obs_call.action, obs_call.result)]
    /\ UNCHANGED <<shellVars, fsVars, loopVars, approvalVars, execVars, chatVars,
                   contextVars>>

ObserveNext == Observe

(***************************************************************************)
(* The chat loop (ui/cli.py, chat)                                         *)
(***************************************************************************)
\* ---- bound of the chat loop ----
MaxTurns == 3

\* str.strip()
Strip(s) ==
    LET kept == {i \in 1..Len(s) : ~IsSpace(Ch(s, i))}
    IN  IF kept = {} THEN ""
        ELSE SubSeq(s, Min(kept), CHOOSE j \in kept : \A i \in kept : i <= j)

\* a dict with the keys `given`: pending_confirmation and intent.pending_action
\* (a key that is not given has the value "")
Confirmation(given, action, type, file_path) ==
    [given |-> given, action |-> action, type |-> type, file_path |-> file_path]

\* None (for intent.pending_action also the empty dict): `if` sees it as false
NoConfirmation == Confirmation({}, "", "", "")

\* what intent.pending_action can hold when the model answers: nothing, a
\* delete or an overwrite with its file, a dict without 'type', a delete
\* without 'file_path'
PendingActions ==
    {NoConfirmation,
     Confirmation({"type", "file_path"}, "", "delete_file", "a.txt"),
     Confirmation({"type", "file_path"}, "", "overwrite_file", "a.txt"),
     Confirmation({"file_path"}, "", "", "a.txt"),
     Confirmation({"type"}, "", "delete_file", "")}

\* an Intent of llm/schemas.py, or the exception classify_intent raised
Intent(type, function_name, pending_action) ==
    [type |-> type, function_name |-> function_name, pending_action |-> pending_action]

Intents ==
    {Intent("function_call", f, NoConfirmation) : f \in {"status", "quit"}}
    \cup {Intent("compound_request", None, NoConfirmation),
          Intent("plan_required", None, NoConfirmation),
          Intent("Exception", None, NoConfirmation)}
    \cup {Intent("clarification_needed", None, p) : p \in PendingActions}

\* what the user types at the prompt
UserInputs ==
    {"", "yes", " Y ", "no", "Cancel", "delete a.txt", "yes please", "/status",
     "/quit"}

\* what one pass of the loop body leaves: pending_confirmation, where the loop
\* goes, the branch taken and the file it had fs_tool.delete called on
ChatResult(confirmation, next_pc, path_taken, deleted) ==
    [pending_confirmation |-> confirmation, pc |-> next_pc, branch |-> path_taken,
     deleted |-> deleted]

\* line 129 left out: the pending confirmation is kept
ClearedNot(confirmation) == confirmation

\* agent.state.pending_confirmation = None before the new request is processed
Cleared(confirmation) == NoConfirmation

\* the loop body from "Handle commands" on, entered with `confirmation` pending
NewRequest(confirmation, user_input, intent) ==
    IF StartsAt(user_input, 1, "/")
    THEN IF user_input \in {"/quit", "/exit"}
         THEN ChatResult(confirmation, "quit", "command", <<>>)
         ELSE ChatResult(confirmation, "prompt", "command", <<>>)
    ELSE IF intent.type = "function_call"
    THEN IF intent.function_name = "quit"
         THEN ChatResult(confirmation, "quit", "function_call", <<>>)
         ELSE ChatResult(confirmation, "prompt", "function_call", <<>>)
    ELSE IF intent.type = "compound_request"
    THEN ChatResult(confirmation, "prompt", "compound_request", <<>>)
    ELSE IF intent.type = "clarification_needed"
    THEN IF intent.pending_action.given # {}
         THEN ChatResult(
                  Confirmation({"action", "question"} \cup intent.pending_action.given,
                               user_input, intent.pending_action.type,
                               intent.pending_action.file_path),
                  "prompt", "clarification_needed", <<>>)
         ELSE ChatResult(confirmation, "prompt", "clarification_needed", <<>>)
    ELSE ChatResult(confirmation, "prompt", "agent_loop", <<>>)

\* one pass of the body of `while True` for the input the user typed and the
\* intent the classifier would return for it
LoopBody(confirmation, user_input, intent) ==
    LET user_lower == Lower(Strip(user_input))
    IN  IF Strip(user_input) = ""
        THEN ChatResult(confirmation, "prompt", "blank", <<>>)
        ELSE IF confirmation.given = {}
        THEN NewRequest(confirmation, user_input, intent)
        ELSE IF user_lower \in {"yes", "y", "confirm", "ok", "sure"}
        THEN IF "type" \notin confirmation.given
             THEN ChatResult(confirmation, "raised", "KeyError", <<>>)
             ELSE IF confirmation.type # "delete_file"
             THEN ChatResult(NoConfirmation, "prompt", "confirmed", <<>>)
             ELSE IF "file_path" \notin confirmation.given
             THEN ChatResult(confirmation, "raised", "KeyError", <<>>)
             ELSE ChatResult(NoConfirmation, "prompt", "confirmed",
                             <<confirmation.file_path>>)
        ELSE IF user_lower \in {"no", "n", "cancel", "abort"}
        THEN ChatResult(NoConfirmation, "prompt", "cancelled", <<>>)
        ELSE NewRequest(Cleared(confirmation), user_input, intent)

NoChatTurn == [input |-> "", branch |-> None]

ChatIdle ==
    /\ chat_pc = "prompt"
    /\ pending_confirmation = NoConfirmation
    /\ turns = 0
    /\ chat_turn = NoChatTurn
    /\ pending_since = 0

\* the user answers the prompt and the loop body runs; the agent_loop branch
\* runs agent_loop, which never reads or writes pending_confirmation
ChatInput(user_input, intent) ==
    LET r == LoopBody(pending_confirmation, user_input, intent)
        counted == IF r.branch = "blank" THEN turns ELSE turns + 1
    IN  /\ chat_pc = "prompt"
        /\ turns < MaxTurns
        /\ chat_pc' = r.pc
        /\ pending_confirmation' = r.pending_confirmation
        /\ turns' = counted
        /\ chat_turn' = [input |-> user_input, branch |-> r.branch]
        /\ pending_since' = IF r.branch = "clarification_needed"
                               /\ r.pending_confirmation # NoConfirmation
                            THEN counted ELSE pending_since
        /\ IF r.deleted # <<>>
           THEN LET outcome == DeleteOp(fs, r.deleted[1], now)
                IN  /\ fs' = outcome.fs
                    /\ fs_call' = [op |-> "delete", path |-> r.deleted[1],
                                   args |-> NoFsArgs, result |-> outcome.result]
           ELSE UNCHANGED <<fs, fs_call>>
        /\ UNCHANGED <<now, fs_ops, shellVars, loopVars, approvalVars, observeVars,
                       execVars, contextVars>>

\* Ctrl-C at the prompt: the loop is left if the user confirms, else goes on
KeyboardInterrupt(quit) ==
    /\ chat_pc = "prompt"
    /\ turns < MaxTurns
    /\ chat_pc' = IF quit THEN "quit" ELSE "prompt"
    /\ chat_turn' = [input |-> "", branch |-> "KeyboardInterrupt"]
    /\ UNCHANGED <<pending_confirmation, turns, pending_since, fsVars, shellVars,
                   loopVars, approvalVars, observeVars, execVars, contextVars>>

ChatNext ==
    \/ \E user_input \in UserInputs, intent \in Intents : ChatInput(user_input, intent)
    \/ \E quit \in BOOLEAN : KeyboardInterrupt(quit)
    \/ Tick

(***************************************************************************)
(* The context buffer of agent_loop (agent/core.py, lines 319-324, 389-412)*)
(***************************************************************************)
\* one entry of the context list
Snippet(path, content) == [path |-> path, content |-> content]

\* the context lists retriever.retrieve can have returned
Contexts ==
    {<<>>, <<Snippet("a.txt", "old\n")>>,
     <<Snippet("d/a.txt", "two\n"), Snippet("a.txt", "old\n")>>}

ContextIdle == context = <<>>

\* the Action the engine sees, of an Action with its args dict
AsAction(action) ==
    Action(action.type, 0,
           IF "path" \in action.given THEN action.args.path ELSE "",
           IF "command" \in action.given THEN action.args.command ELSE "")

\* lines 397-410: the entry of file_path gets the content read, or a new
\* entry is appended
SetSnippet(buffer, file_path, content) ==
    LET found == {idx \in DOMAIN buffer : buffer[idx].path = file_path}
    IN  IF found # {}
        THEN [buffer EXCEPT ![Min(found)].content = content]
        ELSE Append(buffer, Snippet(file_path, content))

RECURSIVE RefreshContext(_, _, _)
\* lines 393-412: each affected file is read again; a read that succeeds
\* with data that is true (not None, not "") goes into the buffer
RefreshContext(buffer, affected_files, fsys) ==
    IF affected_files = <<>> THEN buffer
    ELSE LET file_content == ReadOp(fsys, Head(affected_files)).result
             refreshed == IF file_content.success /\ file_content.data \notin {None, ""}
                          THEN SetSnippet(buffer, Head(affected_files), file_content.data)
                          ELSE buffer
         IN  RefreshContext(refreshed, Tail(affected_files), fsys)

\* the batch actions to execute: each type with all its arguments given
ContextInputs ==
    {[action |-> ExecAction(type, ArgKeys(type), args), dry_run |-> FALSE,
      result |-> NoExecResult, adapter |-> None] :
         type \in {"fs_write", "fs_edit", "fs_insert_lines", "fs_delete", "shell_run"},
         args \in ArgValues}

\* lines 324-342 and 389-412 for the batch action the executor has just
\* executed: it is observed, and after a success with a context update the
\* affected files are read again into the context (a failure goes to lines
\* 345-387, which leave the entries of the context as they are unless a fix
\* is made)
UpdateContext ==
    /\ exec_call.action.type # None
    /\ exec_call.result # NoExecResult
    /\ obs_call = NoObsCall
    /\ LET action == AsAction(exec_call.action)
           obs == observe(action, exec_call.result)
       IN  /\ obs_call' = [action |-> action, result |-> exec_call.result,
                           observation |-> obs]
           /\ IF obs.success /\ obs.context_update # {} /\ obs.affected_files # <<>>
              THEN /\ context' = RefreshContext(context, obs.affected_files, fs)
                   /\ LET file_path == obs.affected_files[Len(obs.affected_files)]
                      IN  fs_call' = [op |-> "read", path |-> file_path,
                                      args |-> NoFsArgs,
                                      result |-> ReadOp(fs, file_path).result]
              ELSE UNCHANGED <<context, fs_call>>
    /\ UNCHANGED <<fs, now, fs_ops, shellVars, loopVars, approvalVars, execVars,
                   chatVars>>

ContextNext == ExecuteCall \/ UpdateContext

\* no call of the ApprovalSystem, of observe or of the Executor yet, the chat
\* loop at its first prompt
AuxIdle == AssessIdle /\ ObserveIdle /\ ExecIdle /\ ChatIdle /\ ContextIdle

\* ---- the specifications ----
\* agent_loop(user_message, max_iterations, steps_per_iteration)
Init ==
    /\ max_iterations \in 0..MaxIter
    /\ steps_per_iteration \in 0..MaxSteps
    /\ LoopIdle
    /\ SessionIdle
    /\ AuxIdle
    /\ ShellIdle
    /\ FsIdle

Next ==
    \/ Start
    \/ PlannerRaises
    \/ LoopExhausted
    \/ FirstIteration
    \/ PlanNextSteps
    \/ ExecuteAction
    \/ ReflectRaises
    \/ Reflect
    \/ ExecuteFix
    \/ Verify

Spec == Init /\ [][Next]_vars

\* every call the loop makes returns or raises, so a step that can be taken
\* is taken
FairSpec == Spec /\ WF_vars(Next)

LoopOff == max_iterations = 0 /\ steps_per_iteration = 1 /\ LoopIdle /\ SessionIdle

\* one session: agent_loop and the other operations, one after the other
InitSession ==
    /\ max_iterations = 2
    /\ steps_per_iteration = 1
    /\ LoopIdle
    /\ SessionIdle
    /\ AuxIdle
    /\ ShellIdle
    /\ FsIdle

\* a step of agent_loop, started like the other operations
AgentLoop == (pc = "idle" => Budget) /\ Next

SessionNext ==
    \/ AgentLoop
    \/ Return
    \/ PlanOp
    \/ ExecutePlan
    \/ VerifyChanges
    \/ CommitChanges
    \/ RfStart
    \/ RfExhausted
    \/ RfVerify
    \/ RfReflectRaises
    \/ RfFix

SpecSession == InitSession /\ [][SessionNext]_vars

\* reflect_and_fix on a session with or without a current plan
ReflectNext ==
    \/ PlanOp
    \/ Return
    \/ RfStart
    \/ RfExhausted
    \/ RfVerify
    \/ RfReflectRaises
    \/ RfFix

SpecReflect == InitSession /\ [][ReflectNext]_vars

\* calls of ShellTool.run
InitShell == ShellInit /\ FsIdle /\ LoopOff /\ AuxIdle

SpecShell == InitShell /\ [][ShellNext]_vars

\* calls of the FileSystemTool methods with paths inside and outside the jail
InitJail == FsIdle /\ ShellIdle /\ LoopOff /\ AuxIdle

SpecJail == InitJail /\ [][JailNext]_vars

\* calls of the FileSystemTool methods on the files of a repository
InitFs == FsInit /\ ShellIdle /\ LoopOff /\ AuxIdle

SpecFs == InitFs /\ [][FsNext]_vars

\* calls of ApprovalSystem.assess_plan and assess_action
InitApproval ==
    /\ assess_call \in AssessInputs
    /\ ObserveIdle /\ ExecIdle /\ ChatIdle /\ ContextIdle /\ FsIdle /\ ShellIdle /\ LoopOff

SpecApproval == InitApproval /\ [][ApprovalNext]_vars

\* calls of Executor.execute on the files of a repository
InitExec ==
    /\ exec_call \in ExecInputs
    /\ installed = {}
    /\ branch = "main"
    /\ AssessIdle
    /\ ObserveIdle
    /\ ChatIdle
    /\ ContextIdle
    /\ FsInit
    /\ ShellIdle
    /\ LoopOff

SpecExec == InitExec /\ [][ExecNext]_vars

\* calls of CodingAgent.observe
InitObserve ==
    /\ obs_call \in ObserveInputs
    /\ AssessIdle /\ ExecIdle /\ ChatIdle /\ ContextIdle /\ FsIdle /\ ShellIdle /\ LoopOff

SpecObserve == InitObserve /\ [][ObserveNext]_vars

\* one chat session on the files of a repository
InitChat ==
    /\ ChatIdle /\ AssessIdle /\ ObserveIdle /\ ExecIdle /\ ContextIdle
    /\ FsInit /\ ShellIdle /\ LoopOff

SpecChat == InitChat /\ [][ChatNext]_vars

\* one batch action of agent_loop on the files of a repository, and the
\* context it leaves
InitContext ==
    /\ exec_call \in ContextInputs
    /\ installed = {}
    /\ branch = "main"
    /\ context \in Contexts
    /\ AssessIdle /\ ObserveIdle /\ ChatIdle /\ FsInit /\ ShellIdle /\ LoopOff

SpecContext == InitContext /\ [][ContextNext]_vars

(***************************************************************************)
(* Properties of agent_loop                                                *)
(***************************************************************************)
IsBatchCall(c) == c.kind = "executor" /\ ~c.fix
IsFixCall(c) == c.kind = "executor" /\ c.fix
Last(seq) == seq[Len(seq)]
VerifierCalls == {i \in 1..Len(calls) : calls[i].kind = "verifier"}

\* C1: no action whose risk_score exceeds autoApproveMax and no shell_run
\* action whose command matches a dangerous pattern reaches the executor's
\* tool adapter unless a confirmation for that action was requested and
\* resolved before.
NoSilentExecution ==
    \A i \in 1..Len(calls) :
        (/\ calls[i].kind = "executor"
         /\ \/ calls[i].action.risk_score > auto_approve_max
            \/ /\ calls[i].action.type = "shell_run"
               /\ IsDangerousShellCmd(calls[i].action.command))
        => \E j \in 1..(i - 1) :
              calls[j].kind = "confirmation" /\ calls[j].action = calls[i].action

\* C5: when a batch action's observation is unsuccessful with
\* can_retry=false the run returns success=false at once: that executor call
\* is the last call of the run (no executor, reflector, planner or verifier
\* call follows).
NonRetryableFailureEndsRun ==
    \A i \in 1..Len(calls) :
        (IsBatchCall(calls[i]) /\ ~calls[i].success /\ ~calls[i].can_retry)
        => /\ i = Len(calls)
           /\ pc = "done"
           /\ results.success = FALSE

\* a run stopped by a non-retryable failure before its batch and its
\* iterations were used up
NonRetryableFailureWitness ==
    /\ pc = "done"
    /\ calls # <<>>
    /\ IsBatchCall(Last(calls)) /\ ~Last(calls).success /\ ~Last(calls).can_retry
    /\ Last(calls).index < Len(actions_to_execute)
    /\ results.iterations < max_iterations
    /\ results.success = FALSE

\* C6: when a fix action proposed by the reflector fails the run returns
\* success=false at once: the failed fix is the last call of the run, and
\* results.iterations is the iteration of the failure (one more than the
\* verifications made; 1 when max_iterations = 1).
FixFailureEndsRun ==
    \A i \in 1..Len(calls) :
        (IsFixCall(calls[i]) /\ ~calls[i].success)
        => /\ i = Len(calls)
           /\ pc = "done"
           /\ results.success = FALSE
           /\ results.iterations = 1 + Cardinality(VerifierCalls)
           /\ (max_iterations = 1 => results.iterations = 1)

\* a fix failed in the first of two iterations and the run is over
FixFailureWitness ==
    /\ pc = "done"
    /\ calls # <<>>
    /\ IsFixCall(Last(calls)) /\ ~Last(calls).success
    /\ max_iterations = 2
    /\ results.iterations = 1
    /\ results.success = FALSE

\* C7: when a batch action fails with can_retry=true and the first action of
\* a non-empty fix plan succeeds, the run is not aborted: the fix is the only
\* fix action executed for that failure, self_corrections counts it once, and
\* the loop goes on with the next batch action or the verification; with
\* max_iterations = 1 and a one-action plan the run returns success=true and
\* self_corrections=1 whatever the verifier reports.
FixSuccessContinues ==
    /\ \A i \in 1..Len(calls) :
          (IsFixCall(calls[i]) /\ calls[i].success)
          => /\ i >= 3
             /\ calls[i - 1].kind = "reflector" /\ calls[i - 1].success
             /\ IsBatchCall(calls[i - 2])
             /\ ~calls[i - 2].success /\ calls[i - 2].can_retry
             /\ i < Len(calls) =>
                   \/ calls[i + 1].kind = "verifier"
                   \/ /\ IsBatchCall(calls[i + 1])
                      /\ calls[i + 1].index = calls[i].index + 1
                      /\ calls[i + 1].iteration = calls[i].iteration
             /\ i = Len(calls) => (pc \in {"execute", "verify"} /\ results.success)
    /\ results.self_corrections =
          Cardinality({i \in 1..Len(calls) : IsFixCall(calls[i])})
          + (IF pc = "fix" THEN 1 ELSE 0)
    /\ (/\ pc = "done"
        /\ max_iterations = 1
        /\ Len(initial_plan) = 1
        /\ \E i \in 1..Len(calls) : IsFixCall(calls[i]) /\ calls[i].success)
       => (results.success /\ results.self_corrections = 1)

\* one iteration, a plan of one action that failed, a fix that succeeded,
\* a verification that failed: success=true, self_corrections=1
FixSuccessWitness ==
    /\ pc = "done"
    /\ max_iterations = 1
    /\ Len(initial_plan) = 1
    /\ Len(calls) = 5
    /\ IsBatchCall(calls[2]) /\ ~calls[2].success
    /\ IsFixCall(calls[4]) /\ calls[4].success
    /\ calls[5].kind = "verifier" /\ ~calls[5].success
    /\ results.success
    /\ results.self_corrections = 1

\* C8: when the reflector call made after a retryable failure raises, the
\* run returns success=false at once, the exception does not reach the
\* caller, and no action, planner call or verifier call follows.
ReflectorExceptionEndsRun ==
    \A i \in 1..Len(calls) :
        (calls[i].kind = "reflector" /\ ~calls[i].success)
        => /\ i = Len(calls)
           /\ pc = "done"
           /\ results.success = FALSE
           /\ ~raised

\* the reflector raised and agent_loop returned a failed result
ReflectorExceptionWitness ==
    /\ pc = "done"
    /\ calls # <<>>
    /\ Last(calls).kind = "reflector" /\ ~Last(calls).success
    /\ IsBatchCall(calls[Len(calls) - 1]) /\ calls[Len(calls) - 1].can_retry
    /\ results.success = FALSE
    /\ ~raised

\* C9: the verifier is called once per iteration whose non-empty batch ran
\* to its end, right after the last action of that batch was dealt with; the
\* first verification that reports 'pass' ends the run with success=true and
\* no planner, executor or verifier call follows it.
VerifierOncePerBatch ==
    /\ \A i \in VerifierCalls :
          /\ i > 1
          /\ calls[i].index >= 1
          /\ calls[i - 1].kind \in {"executor", "reflector"}
          /\ calls[i - 1].iteration = calls[i].iteration
          /\ calls[i - 1].index = calls[i].index
          /\ \A j \in VerifierCalls : j # i => calls[j].iteration # calls[i].iteration
          /\ calls[i].success => (i = Len(calls) /\ pc = "done" /\ results.success)
    /\ pc \in {"iterate", "execute", "reflect", "fix", "verify"}
          => Cardinality(VerifierCalls) = iteration

\* the first of two iterations passed verification and the run is over
VerifierPassWitness ==
    /\ pc = "done"
    /\ calls # <<>>
    /\ Last(calls).kind = "verifier" /\ Last(calls).success
    /\ Last(calls).index = 2
    /\ max_iterations = 2
    /\ results.iterations = 1
    /\ results.success

NoFatalCall ==
    \A i \in 1..Len(calls) :
        /\ ~(IsBatchCall(calls[i]) /\ ~calls[i].success /\ ~calls[i].can_retry)
        /\ ~(IsFixCall(calls[i]) /\ ~calls[i].success)
        /\ ~(calls[i].kind = "reflector" /\ ~calls[i].success)

\* C10: a failing verification never ends the run or changes
\* results.success: when every verification fails, every batch is non-empty
\* and no action failure aborts the run, the loop runs exactly max_iterations
\* iterations and returns iterations = max_iterations with success still true.
FailingVerificationNotFatal ==
    /\ (/\ pc = "done"
        /\ \A i \in VerifierCalls : ~calls[i].success
        /\ NoFatalCall
        /\ (max_iterations = 0 \/ actions_to_execute # <<>>))
       => /\ results.iterations = max_iterations
          /\ Len(verification_results) = max_iterations
          /\ results.success = TRUE
    /\ (calls # <<>> /\ Last(calls).kind = "verifier" /\ ~Last(calls).success)
       => /\ results.success = TRUE
          /\ pc \in {"iterate", "done"}
          /\ pc = "done" => iteration = max_iterations

\* two iterations, both verifications failed, the run returns after the second
FailingVerificationWitness ==
    /\ pc = "done"
    /\ max_iterations = 2
    /\ verification_results = <<"fail", "fail">>
    /\ results.iterations = 2
    /\ results.success = TRUE
    /\ \E i \in 1..Len(calls) : IsBatchCall(calls[i]) /\ ~calls[i].success

\* C11: when the batch of an iteration is empty (the initial plan has no
\* steps at iteration 0, or the incremental plan has none later) the loop
\* exits in that iteration: no batch action is executed and no verification
\* runs in it, nothing follows the planner call, and the run returns
\* success=true.
EmptyBatchEndsRun ==
    /\ pc \in {"execute", "reflect", "fix", "verify"} => actions_to_execute # <<>>
    /\ (pc = "done" /\ results.iterations >= 1 /\ actions_to_execute = <<>>)
       => /\ results.success = TRUE
          /\ Last(calls).kind = "planner" /\ Last(calls).success
          /\ \A i \in 1..Len(calls) :
                calls[i].iteration = results.iterations => calls[i].kind = "planner"
          /\ Len(verification_results) = results.iterations - 1

\* the second iteration's incremental plan had no steps after a first
\* iteration with a failing verification
EmptyBatchWitness ==
    /\ pc = "done"
    /\ max_iterations = 2
    /\ results.iterations = 2
    /\ actions_to_execute = <<>>
    /\ verification_results = <<"fail">>
    /\ results.success = TRUE

\* C12: every run of agent_loop whose external calls all return or raise
\* comes to its end (the result is returned, or the planner's exception left
\* the loop) and stays there: one terminal outcome per run.
AgentLoopTerminates == <>[](pc = "done" \/ raised)

\* a run of max_iterations iterations with a failed action, a fix and
\* failing verifications has returned
AgentLoopTerminatesWitness ==
    /\ pc = "done"
    /\ max_iterations = MaxIter
    /\ results.iterations = MaxIter
    /\ results.self_corrections >= 1
    /\ Len(verification_results) = MaxIter
    /\ \A i \in 1..Len(verification_results) : verification_results[i] = "fail"

\* C14: within one iteration the batch actions reach the executor in plan
\* list order, each at most once: the k-th batch call of an iteration is for
\* the k-th action of that iteration's batch; the reflector call and the fix
\* action for a failed batch action come after that action's call and before
\* the next batch action's, so a failed action is never executed again.
BatchOrderKept ==
    /\ \A i \in 1..Len(calls) :
          IsBatchCall(calls[i])
          => /\ calls[i].index =
                   1 + Cardinality({j \in 1..(i - 1) :
                           IsBatchCall(calls[j]) /\ calls[j].iteration = calls[i].iteration})
             /\ calls[i].iteration = results.iterations
                   => /\ calls[i].index <= Len(actions_to_execute)
                      /\ calls[i].action = actions_to_execute[calls[i].index]
    /\ \A i \in 1..Len(calls) :
          (calls[i].kind = "reflector" \/ IsFixCall(calls[i]))
          => \E j \in 1..(i - 1) :
                /\ IsBatchCall(calls[j]) /\ ~calls[j].success
                /\ calls[j].iteration = calls[i].iteration
                /\ calls[j].index = calls[i].index
                /\ \A k \in (j + 1)..(i - 1) : ~IsBatchCall(calls[k])

\* the first action of a two-action batch failed and was fixed, then the
\* second action was executed
BatchOrderWitness ==
    /\ Len(calls) >= 5
    /\ IsBatchCall(calls[2]) /\ ~calls[2].success /\ calls[2].index = 1
    /\ calls[3].kind = "reflector"
    /\ IsFixCall(calls[4]) /\ calls[4].success
    /\ IsBatchCall(calls[5]) /\ calls[5].index = 2
    /\ calls[5].action = actions_to_execute[2]
    /\ calls[5].action # calls[2].action

\* C13: across the operations of one session executed_actions only grows
\* by appending: over every step its old value is a prefix of its new value,
\* so no entry is ever modified or removed.
ExecutedActionsAppendOnly ==
    [][IsPrefix(executed_actions, executed_actions')]_vars

\* reflect_and_fix has executed a fix plan after agent_loop had recorded a
\* failed action, and that entry is still the first one
ExecutedActionsWitness ==
    /\ pc = "rf_verify"
    /\ attempt = 1
    /\ Len(executed_actions) >= 2
    /\ executed_actions[1].result.diff = None
    /\ ~executed_actions[1].result.success
    /\ executed_actions[Len(executed_actions)].type = "fs_edit"

\* the contents of the files under the trash directory
TrashContents(fsys) ==
    {fsys[n].content : n \in {m \in DOMAIN fsys : IsPrefix(trash_dir, m) /\ IsFile(fsys, m)}}

\* C15: delete never destroys data: every content held by a file under the
\* trash directory is still held by one after any further call, and after a
\* successful delete of a file its content is held by a file under the trash
\* directory, also when files of the same base name are deleted within the
\* same second.
DeleteNeverDestroysData ==
    [][/\ TrashContents(fs) \subseteq TrashContents(fs')
       /\ \A path \in WorkPaths :
              (/\ fs_ops' = fs_ops + 1
               /\ fs_call'.op = "delete"
               /\ fs_call'.path = path
               /\ fs_call'.result.success)
              => fs[Resolve(fs, path)].content \in TrashContents(fs')]_vars

\* C16: edit(path, old_text, new_text) on an existing file fails and leaves
\* the file as it is when old_text is not a literal substring of the file's
\* content, and otherwise succeeds and leaves the content with only the
\* leftmost occurrence of old_text replaced by new_text.
EditReplacesFirstOccurrence ==
    [][(fs_ops' = fs_ops + 1 /\ fs_call'.op = "edit"
          /\ IsFile(fs, Resolve(fs, fs_call'.path)))
       => LET node == Resolve(fs, fs_call'.path)
              content == fs[node].content
              old_text == fs_call'.args.old_text
              new_text == fs_call'.args.content
          IN  IF Contains(content, old_text)
              THEN /\ fs_call'.result.success
                   /\ fs' = [fs EXCEPT ![node] =
                                 File(ReplaceFirst(content, old_text, new_text))]
              ELSE /\ ~fs_call'.result.success
                   /\ fs' = fs]_vars

\* C17: a successful write(path, content) followed by read(path) succeeds and
\* returns exactly content, also for the empty string and for content with
\* carriage returns.
WriteReadRoundTrip ==
    [][(/\ fs_call.op = "write"
        /\ fs_call.result.success
        /\ fs_ops' = fs_ops + 1
        /\ fs_call'.op = "read"
        /\ fs_call'.path = fs_call.path)
       => /\ fs_call'.result.success
          /\ fs_call'.result.data = fs_call.args.content]_vars

\* C18: insert_lines with operation 'replace' is idempotent: the same call
\* made again right after it succeeded leaves the file as the first call left
\* it, whatever the line number and the content (empty, one line, several
\* lines).
ReplaceIsIdempotent ==
    [][(/\ fs_call.op = "insert_lines"
        /\ fs_call.args.operation = "replace"
        /\ fs_call.result.success
        /\ fs_ops' = fs_ops + 1
        /\ fs_call'.op = fs_call.op
        /\ fs_call'.path = fs_call.path
        /\ fs_call'.args = fs_call.args)
       => fs' = fs]_vars

\* a line without its line boundary (str.splitlines without keepends)
StripEnd(line) ==
    IF line # "" /\ Ch(line, Len(line)) \in {"\n", "\r", "\f"}
    THEN SubSeq(line, 1, Len(line) - 1)
    ELSE line

\* the lines of a file as insert_lines counts them, without their boundaries
TextLines(content) ==
    LET lines == SplitLines(UniversalNewlines(content))
    IN  [i \in 1..Len(lines) |-> StripEnd(lines[i])]

\* C19: on a file of N lines with 1 <= n <= N and non-empty single-line
\* content c, insert_lines succeeds and leaves N+1 lines: with 'after' c is
\* line n+1, with 'before' c is line n, and the N lines of before are all
\* kept in their order around it.
InsertKeepsOriginalLines ==
    [][\A n \in 1..MaxLine :
        LET node == Resolve(fs, fs_call'.path)
            old == TextLines(fs[node].content)
            c == fs_call'.args.content
            k == IF fs_call'.args.operation = "after" THEN n ELSE n - 1
        IN  (/\ fs_ops' = fs_ops + 1
             /\ fs_call'.op = "insert_lines"
             /\ fs_call'.args.operation \in {"after", "before"}
             /\ fs_call'.args.line_number = n
             /\ IsFile(fs, node)
             /\ n <= Len(old))
            => /\ fs_call'.result.success
               /\ TextLines(fs'[node].content)
                      = SubSeq(old, 1, k) \o <<c>> \o SubSeq(old, k + 1, Len(old))]_vars

\* C20: insert_lines on an existing file of N lines succeeds exactly when the
\* operation is one of after, before, replace and 1 <= line_number <= N+1
\* (replace at line N+1 included), and a call that fails leaves the file as
\* it is.
InsertSucceedsExactlyInRange ==
    [][(/\ fs_ops' = fs_ops + 1
        /\ fs_call'.op = "insert_lines"
        /\ IsFile(fs, Resolve(fs, fs_call'.path)))
       => LET N == Len(TextLines(fs[Resolve(fs, fs_call'.path)].content))
              line_number == fs_call'.args.line_number
          IN  /\ fs_call'.result.success
                    <=> (/\ fs_call'.args.operation \in {"after", "before", "replace"}
                         /\ 1 <= line_number
                         /\ line_number <= N + 1)
              /\ ~fs_call'.result.success => fs' = fs]_vars

\* C21: the timeout ShellTool.run gives the subprocess never exceeds
\* max_timeout whatever timeout the caller passed, it is max_timeout when the
\* caller passed none, and a subprocess that timed out gives a result with
\* success=false and exit_code=-1.
ShellTimeoutBounded ==
    shell_call.started
    => /\ shell_call.actual_timeout[1] <= max_timeout
       /\ shell_call.timeout = <<>> => shell_call.actual_timeout = <<max_timeout>>
       /\ shell_call.message = "Command timed out"
              => ~shell_call.success /\ shell_call.exit_code = -1

\* C22: for a plan with at least one step assess_plan approves exactly when
\* none of the three triggers holds (the highest risk_score above
\* autoApproveMax, more fs_delete steps than deleteFileMax, a shell_run step
\* with a dangerous command); otherwise it returns approved=false and
\* requires_confirmation=true with the triggered reasons in the order risk,
\* deletions, dangerous shell, joined by '; '. The risk_score returned is the
\* highest one of the steps.
AssessPlanTriggers ==
    (assess_call.fn = "assess_plan" /\ assess_call.decision # NoDecision
       /\ assess_call.steps # <<>>)
    => LET steps == assess_call.steps
           config == assess_call.config
           decision == assess_call.decision
           idx == 1..Len(steps)
           risky == \E i \in idx : steps[i].risk_score > config.auto_approve_max
           deletes == Cardinality({i \in idx : steps[i].type = "fs_delete"})
           dangerous == \E i \in idx : /\ steps[i].type = "shell_run"
                                      /\ IsDangerousShellCmd(steps[i].command)
           risk_reason == "High risk action (score: " \o Format2f(decision.risk_score) \o ")"
           delete_reason == "Too many file deletions (" \o ToString(deletes) \o ")"
           shell_reason == "Dangerous shell command detected"
           text(on, reason) == IF on THEN <<reason>> ELSE <<>>
       IN  /\ decision.approved <=> ~(risky \/ deletes > config.delete_file_max \/ dangerous)
           /\ decision.requires_confirmation <=> ~decision.approved
           /\ \A i \in idx : steps[i].risk_score <= decision.risk_score
           /\ \E i \in idx : steps[i].risk_score = decision.risk_score
           /\ ~decision.approved
                => decision.reason
                     = Join("; ", text(risky, risk_reason)
                                  \o text(deletes > config.delete_file_max, delete_reason)
                                  \o text(dangerous, shell_reason))

\* a plan that sets off all three triggers has been assessed
AssessPlanTriggersWitness ==
    /\ assess_call.fn = "assess_plan"
    /\ assess_call.decision # NoDecision
    /\ Len(assess_call.steps) = MaxPlanLen
    /\ assess_call.decision.reason
         = "High risk action (score: 0.90); Too many file deletions (2); Dangerous shell command detected"

\* C23: assess_plan of a plan without steps returns approved=false and
\* requires_confirmation=false, whatever the configuration.
EmptyPlanNotApproved ==
    (assess_call.fn = "assess_plan" /\ assess_call.decision # NoDecision
       /\ assess_call.steps = <<>>)
    => /\ ~assess_call.decision.approved
       /\ ~assess_call.decision.requires_confirmation

\* the plan without steps has been assessed under a configuration that
\* approves every risk
EmptyPlanWitness ==
    /\ assess_call.fn = "assess_plan"
    /\ assess_call.steps = <<>>
    /\ assess_call.config = RiskConfig(10, delete_file_max)
    /\ assess_call.decision.reason = "Plan has no steps"

\* C24: assess_action of a shell_run action whose command matches a dangerous
\* pattern returns approved=false, requires_confirmation=true and
\* risk_score = max(action.risk_score, 0.8), also when the action's own
\* risk_score is at most autoApproveMax; for every other action, fs_delete
\* included, approved is true exactly when risk_score <= autoApproveMax and
\* the risk_score returned is the action's own.
AssessActionDecision ==
    (assess_call.fn = "assess_action" /\ assess_call.decision # NoDecision)
    => LET action == assess_call.action
           decision == assess_call.decision
       IN  IF action.type = "shell_run" /\ IsDangerousShellCmd(action.command)
           THEN /\ ~decision.approved
                /\ decision.requires_confirmation
                /\ decision.risk_score >= 8
                /\ decision.risk_score >= action.risk_score
                /\ decision.risk_score \in {8, action.risk_score}
           ELSE /\ decision.approved <=> action.risk_score <= auto_approve_max
                /\ decision.risk_score = action.risk_score

\* a dangerous shell command of low risk has been assessed and refused
AssessActionWitness ==
    /\ assess_call.fn = "assess_action"
    /\ assess_call.action.type = "shell_run"
    /\ assess_call.action.risk_score <= auto_approve_max
    /\ IsDangerousShellCmd(assess_call.action.command)
    /\ assess_call.decision = ApprovalDecision(FALSE, 8, "Dangerous shell command", TRUE)

\* the state of the four adapters' worlds: files, shell, packages, branch
ToolState == <<fs, fs_call, shell_call, installed, branch>>

\* C25: execute(action, dry_run=true) returns success=true for every action of
\* every type, also one that lacks required arguments, calls no adapter and
\* leaves the filesystem, the shell, the installed packages and the checked
\* out branch as they are.
DryRunTouchesNothing ==
    [][(exec_call.dry_run /\ exec_call' # exec_call)
       => /\ exec_call'.result.success
          /\ exec_call'.adapter = None
          /\ ToolState' = ToolState]_vars

\* a dry run of a delete without arguments has returned
DryRunWitness ==
    /\ exec_call.dry_run
    /\ exec_call.action.type = "fs_delete"
    /\ exec_call.action.given = {}
    /\ exec_call.result = DryRun(exec_call.action)

\* the arguments an action of each type cannot do without
RequiredArgs(type) ==
    CASE type = "fs_write" -> {"path", "content"}
      [] type = "fs_edit" -> {"path", "old_text", "new_text"}
      [] type = "fs_insert_lines" -> {"path", "line_number", "content"}
      [] type = "fs_delete" -> {"path"}
      [] type = "shell_run" -> {"command"}
      [] type = "deps_install" -> {"language", "packages"}
      [] type = "git_checkout" -> {"branch"}

\* C26: execute with dry_run=false on an action of any type that lacks one of
\* its required arguments returns success=false and calls no adapter, so no
\* file, process, package or branch changes.
MissingArgumentFails ==
    [][(/\ ~exec_call.dry_run
        /\ exec_call' # exec_call
        /\ ~(RequiredArgs(exec_call.action.type) \subseteq exec_call.action.given))
       => /\ ~exec_call'.result.success
          /\ exec_call'.adapter = None
          /\ ToolState' = ToolState]_vars

\* a write that has a path and no content has been refused
MissingArgumentWitness ==
    /\ ~exec_call.dry_run
    /\ exec_call.action.type = "fs_write"
    /\ exec_call.action.given = {"path"}
    /\ exec_call.action.args.path = "a.txt"
    /\ exec_call.result = ExecutionResult(FALSE, "Missing path or content", "")

\* observe has returned for the call at hand
Observed == obs_call.action # NoAction /\ obs_call.observation # NoObservation

\* the lower-cased message of the observed result contains the marker
HasMarker(marker) == Contains(Lower(obs_call.result.message), marker)

\* C27: for a failed result observe gives the error_type of the first rule
\* that matches the lower-cased message, in the order 'import' -> ImportError,
\* 'syntax' -> SyntaxError, 'not found' or 'does not exist' ->
\* FileNotFoundError, 'permission' -> PermissionError, else UnknownError; for
\* a successful result error_type is null.
ErrorTypeByFirstRule ==
    Observed
    => LET error_type == obs_call.observation.error_type
           missing == HasMarker("not found") \/ HasMarker("does not exist")
       IN  IF obs_call.result.success THEN error_type = None
           ELSE /\ HasMarker("import") => error_type = "ImportError"
                /\ (~HasMarker("import") /\ HasMarker("syntax"))
                       => error_type = "SyntaxError"
                /\ (~HasMarker("import") /\ ~HasMarker("syntax") /\ missing)
                       => error_type = "FileNotFoundError"
                /\ (~HasMarker("import") /\ ~HasMarker("syntax") /\ ~missing
                      /\ HasMarker("permission"))
                       => error_type = "PermissionError"
                /\ (~HasMarker("import") /\ ~HasMarker("syntax") /\ ~missing
                      /\ ~HasMarker("permission"))
                       => error_type = "UnknownError"

\* a failed result whose message has the markers of two rules got the
\* category of the earlier one
ErrorTypeWitness ==
    /\ Observed
    /\ ~obs_call.result.success
    /\ obs_call.result.message = "Permission denied: file NOT FOUND"
    /\ obs_call.observation.error_type = "FileNotFoundError"

\* C28: observe sets can_retry=false exactly for a failed result whose
\* message contains 'permission' and none of 'import', 'syntax', 'not found',
\* 'does not exist' (error_type PermissionError); for every other failed
\* result, UnknownError included, and for every successful one it is true.
CanRetryUnlessPermission ==
    Observed
    => /\ ~obs_call.observation.can_retry
            <=> obs_call.observation.error_type = "PermissionError"
       /\ ~obs_call.observation.can_retry
            <=> (/\ ~obs_call.result.success
                 /\ HasMarker("permission")
                 /\ ~HasMarker("import")
                 /\ ~HasMarker("syntax")
                 /\ ~HasMarker("not found")
                 /\ ~HasMarker("does not exist"))

\* a failed result without any marker was observed as retryable
CanRetryWitness ==
    /\ Observed
    /\ ~obs_call.result.success
    /\ obs_call.observation.error_type = "UnknownError"
    /\ obs_call.observation.can_retry

\* C29: context_update is empty for every failed result and for every
\* shell_run, deps_install and git_checkout action; for a successful result it
\* holds exactly one key, file_created for fs_write, file_modified for fs_edit
\* and fs_insert_lines, file_deleted for fs_delete, mapped to the action's
\* path argument. affected_files is [path] for an fs_* action with a path
\* argument and empty for every other action.
ContextUpdateOnSuccessOnly ==
    Observed
    => LET action == obs_call.action
           update == obs_call.observation.context_update
           key == CASE action.type = "fs_write" -> "file_created"
                    [] action.type \in {"fs_edit", "fs_insert_lines"} -> "file_modified"
                    [] action.type = "fs_delete" -> "file_deleted"
                    [] OTHER -> None
       IN  /\ IF obs_call.result.success /\ key # None
              THEN update = {<<key, action.path>>}
              ELSE update = {}
           /\ obs_call.observation.affected_files
                = IF action.type \in {"fs_write", "fs_edit", "fs_insert_lines", "fs_delete"}
                     /\ action.path # ""
                  THEN <<action.path>> ELSE <<>>

\* a failed write with a path was observed: no context update, one affected
\* file
ContextUpdateWitness ==
    /\ Observed
    /\ ~obs_call.result.success
    /\ obs_call.action.type = "fs_write"
    /\ obs_call.observation.affected_files = <<"a.txt">>
    /\ obs_call.observation.context_update = {}

BatchSizeBounded ==
    /\ Len(actions_to_execute) <= steps_per_iteration
    /\ \A k \in 1..(MaxIter + 1) :
          Cardinality({i \in DOMAIN calls : /\ calls[i].kind = "executor"
                                            /\ ~calls[i].fix
                                            /\ calls[i].iteration = k})
            <= steps_per_iteration
    /\ pc = "done"
       => /\ results.iterations <= max_iterations
          /\ results.steps_executed <= results.iterations * steps_per_iteration

\* a run of two iterations whose three-step initial plan was cut to a batch
\* of two returned with four steps executed
BatchSizeWitness ==
    /\ pc = "done"
    /\ Len(initial_plan) = 3
    /\ steps_per_iteration = 2
    /\ results.iterations = 2
    /\ results.steps_executed = 4

\* the reflector call that a fix action's executor call belongs to: the last
\* reflector call before position i of the call history (0 if there is none)
ReflectorBefore(i) ==
    LET earlier == {r \in 1..(i - 1) : calls[r].kind = "reflector"}
    IN  IF earlier = {} THEN 0 ELSE CHOOSE r \in earlier : \A q \in earlier : q <= r

\* a batch action's executor call that failed with can_retry
RetryableFailure(call) ==
    call.kind = "executor" /\ ~call.fix /\ ~call.success /\ call.can_retry

\* C32: for each retryable failure of a batch action in agent_loop the
\* reflector is invoked exactly once (the call right after the failed
\* executor call, and no second one after it; the reflector is invoked for
\* nothing else), and the fix actions handed to the executor after a
\* reflector call are at most the first two steps of its fix plan, in plan
\* order: the k-th fix call has k <= 2 and executes step k. Every fix plan of
\* FixPlans is a prefix of <<EditAction, TestAction, WriteAction>>, so step k
\* is the k-th of these and the third step, WriteAction, is never a fix call.
ReflectorOncePerFailure ==
    LET fix_plan == <<EditAction, TestAction, WriteAction>>
    IN  \A i \in DOMAIN calls :
           /\ RetryableFailure(calls[i])
              => /\ IF i = Len(calls) THEN pc = "reflect"
                    ELSE calls[i + 1].kind = "reflector"
                 /\ i + 2 <= Len(calls) => calls[i + 2].kind # "reflector"
           /\ calls[i].kind = "reflector"
              => i > 1 /\ RetryableFailure(calls[i - 1])
           /\ (calls[i].kind = "executor" /\ calls[i].fix)
              => LET r == ReflectorBefore(i)
                 IN  /\ r > 0
                     /\ calls[r].success
                     /\ i - r <= 2
                     /\ calls[i].action = fix_plan[i - r]
                     /\ \A j \in (r + 1)..i : calls[j].kind = "executor" /\ calls[j].fix

\* a batch action failed with can_retry, the reflector was called once and
\* the first fix action was executed; the loop went on to the next batch
\* action
ReflectorOnceWitness ==
    /\ Len(calls) >= 5
    /\ RetryableFailure(calls[2])
    /\ calls[3].kind = "reflector"
    /\ calls[4].kind = "executor" /\ calls[4].fix /\ calls[4].action = EditAction
    /\ calls[5].kind = "executor" /\ ~calls[5].fix

\* the content of the file `path` names, as the adapter reads it
ContentOf(fsys, path) == UniversalNewlines(fsys[ValidatePath(fsys, path).full_path].content)

\* C33: after a successful fs_write, fs_edit or fs_insert_lines batch action
\* on path p, the context handed to the next planner call has an entry for p
\* whose content is the content of the file at that moment, the empty
\* content included: the first entry that p had is updated in place, or else
\* one entry is appended; the other entries stay as they were.
ContextFollowsFile ==
    [][(/\ obs_call = NoObsCall
        /\ obs_call' # NoObsCall
        /\ obs_call'.observation.success
        /\ obs_call'.action.type \in {"fs_write", "fs_edit", "fs_insert_lines"})
       => LET p == obs_call'.action.path
          IN  context' = SetSnippet(context, p, ContentOf(fs', p))]_vars

\* a successful write that left a.txt empty was observed while the context
\* had an entry for a.txt
ContextEmptyFileCase ==
    /\ obs_call.observation.success
    /\ obs_call.action.type = "fs_write"
    /\ ContentOf(fs, "a.txt") = ""
    /\ \E i \in DOMAIN context : context[i].path = "a.txt"

\* C34: throughout a run of agent_loop state.current_plan stays the initial
\* plan: from the moment it is set no step of the loop assigns it (neither an
\* incremental plan nor a fix plan replaces it), its step list stays the full
\* list the planner returned (the batch is a slice, a copy), and the plan
\* the reflector is called with (state.current_plan when the loop is about
\* to reflect) is the initial plan.
CurrentPlanIsInitialPlan ==
    /\ pc \notin {"idle"} /\ ~(raised /\ calls[Len(calls)].iteration = 0)
       => current_plan = <<initial_plan>>
    /\ \A i \in DOMAIN calls :
          calls[i].kind = "reflector" => current_plan = <<initial_plan>>

\* a second iteration with an incremental plan and a reflector call was made
\* while the three-step initial plan, cut to a batch of one, was the current
\* plan
CurrentPlanWitness ==
    /\ current_plan = <<(<<ShellAction, WriteAction, DeleteAction>>)>>
    /\ steps_per_iteration = 1
    /\ results.iterations = 2
    /\ actions_to_execute = <<WriteAction>>
    /\ \E i \in DOMAIN calls : calls[i].kind = "reflector" /\ calls[i].iteration = 2

\* the positions of the call history where a fix action succeeded
FixSuccesses == {i \in DOMAIN calls : IsFixCall(calls[i]) /\ calls[i].success}

\* the positions of the call history where a batch action was executed
BatchCalls == {i \in DOMAIN calls : IsBatchCall(calls[i])}

\* C35: at every return of agent_loop (and at every point of the run),
\* steps_executed is the length of results.steps and the number of entries
\* the run appended to executed_actions; results.observations has one entry
\* per batch action plus one per fix action that succeeded; the entries of
\* executed_actions are the batch actions, in order, never a fix action, and
\* the diff log holds the non-empty diffs of the batch actions only.
ResultsCountsAgree ==
    /\ results.steps_executed = Len(results.steps)
    /\ results.steps_executed = Len(executed_actions)
    /\ results.steps_executed = Cardinality(BatchCalls)
    /\ Len(results.observations) = results.steps_executed + Cardinality(FixSuccesses)
    /\ \A k \in DOMAIN executed_actions :
          /\ executed_actions[k].result = results.steps[k]
          /\ executed_actions[k].type = results.steps[k].action_type
          /\ \E i \in BatchCalls :
                /\ Cardinality({j \in BatchCalls : j <= i}) = k
                /\ calls[i].action.type = executed_actions[k].type
    /\ Len(diffs) = Cardinality({k \in DOMAIN results.steps :
                                    results.steps[k].diff \notin {None, ""}})

\* a run returned after a fix action that succeeded with a diff: one
\* observation more than steps, and only the batch action's own diff in the
\* diff log
ResultsCountsWitness ==
    /\ pc = "done"
    /\ results.steps_executed = 2
    /\ Len(results.observations) = 3
    /\ Len(diffs) = 1
    /\ \E i \in FixSuccesses : calls[i].action = EditAction

\* C36: when a batch action of agent_loop fails with can_retry and the
\* reflector returns a fix plan with no steps (no fix step is left to try),
\* the run is not aborted, results (success and self_corrections with it) is
\* left as it was, and the loop goes on with the next batch action, or with
\* the verification after the last one; the next executor call is then not a
\* fix call.
EmptyFixPlanContinues ==
    [][(/\ pc = "reflect"
        /\ Len(calls') = Len(calls) + 1
        /\ calls'[Len(calls')].kind = "reflector"
        /\ calls'[Len(calls')].success
        /\ fix_steps' = <<>>)
       => /\ results' = results
          /\ IF action_idx < Len(actions_to_execute)
             THEN pc' = "execute" /\ action_idx' = action_idx + 1
             ELSE pc' = "verify"]_vars

\* such a run can return success = true: a batch action failed, the
\* reflector was called, no fix action ran and nothing was counted as a
\* self-correction
EmptyFixPlanWitness ==
    /\ pc = "done"
    /\ results.success
    /\ results.self_corrections = 0
    /\ \E i \in DOMAIN calls : RetryableFailure(calls[i])
    /\ \E i \in DOMAIN calls : calls[i].kind = "reflector" /\ calls[i].success
    /\ \A i \in DOMAIN calls : ~IsFixCall(calls[i])
    /\ \E k \in DOMAIN results.steps : ~results.steps[k].success

\* the files of a filesystem with their contents
FilesOf(fsys) == {<<n, fsys[n].content>> : n \in {m \in DOMAIN fsys : IsFile(fsys, m)}}

\* C37: a FileSystemTool call that returns success = false leaves the
\* content of every file as it was, no file appears or disappears (a write
\* over the size ceiling, an edit whose old_text is absent or whose file is
\* missing, an insert_lines with a line number out of range, an invalid
\* operation or a missing file, a delete of a missing path); a write whose
\* content is over the size ceiling changes nothing at all, so creates no
\* parent directory; a read changes nothing whether it succeeds or not.
FailedCallKeepsFiles ==
    [][fs_ops' = fs_ops + 1
       => /\ ~fs_call'.result.success => FilesOf(fs') = FilesOf(fs)
          /\ (fs_call'.op = "write" /\ Len(fs_call'.args.content) > max_file_size)
             => ~fs_call'.result.success /\ fs' = fs
          /\ (/\ fs_call'.op = "delete"
              /\ ~Exists(fs, ValidatePath(fs, fs_call'.path).full_path))
             => ~fs_call'.result.success /\ fs' = fs
          /\ fs_call'.op = "read" => fs' = fs]_vars

\* a write of a content over the size ceiling to n/a.txt failed and the
\* directory n was not made
OversizedWriteWitness ==
    /\ fs_call.op = "write"
    /\ fs_call.path = "n/a.txt"
    /\ Len(fs_call.args.content) = max_file_size + 1
    /\ ~fs_call.result.success
    /\ ~Exists(fs, repo_root \o <<"n">>)

\* a call of assess_plan has returned, made on the ApprovalSystem whose
\* auto_approve_max is the one assess_action uses
PlanAssessed ==
    /\ assess_call.fn = "assess_plan"
    /\ assess_call.decision # NoDecision
    /\ assess_call.config.auto_approve_max = auto_approve_max

\* assess_action approves every step of the plan assessed
EveryStepApproved ==
    \A i \in DOMAIN assess_call.steps : assess_action(assess_call.steps[i]).approved

\* the plan assessed has more deletions than delete_file_max
TooManyDeletions ==
    Cardinality({i \in DOMAIN assess_call.steps : assess_call.steps[i].type = "fs_delete"})
        > assess_call.config.delete_file_max

\* C38 as stated: for one configuration, a plan assess_plan approves has
\* only steps assess_action approves, and a plan whose steps are all
\* approved by assess_action is not approved by assess_plan only when the
\* delete-count trigger fires.
PlanApprovalMatchesSteps ==
    PlanAssessed
    => /\ assess_call.decision.approved => EveryStepApproved
       /\ (EveryStepApproved /\ ~assess_call.decision.approved) => TooManyDeletions

\* C38, amended: for one configuration, a plan assess_plan approves has only
\* steps assess_action approves, and a plan whose steps are all approved by
\* assess_action is not approved by assess_plan only when the delete-count
\* trigger fires or the plan has no steps.
PlanApprovalMatchesStepsOrEmpty ==
    PlanAssessed
    => /\ assess_call.decision.approved => EveryStepApproved
       /\ (EveryStepApproved /\ ~assess_call.decision.approved)
          => TooManyDeletions \/ assess_call.steps = <<>>

\* a plan of four steps, each approved by assess_action, was refused for its
\* deletions alone
PlanApprovalWitness ==
    /\ PlanAssessed
    /\ Len(assess_call.steps) = 4
    /\ EveryStepApproved
    /\ ~assess_call.decision.approved
    /\ assess_call.decision.reason = "Too many file deletions (4)"

\* C39: every ApprovalDecision assess_action returns has exactly one of
\* approved and requires_confirmation true; every decision assess_plan
\* returns has at most one of them true, and both are false exactly for a
\* plan with zero steps.
DecisionFlagsExclusive ==
    LET decision == assess_call.decision
    IN  /\ (assess_call.fn = "assess_action" /\ decision # NoDecision)
           => decision.approved # decision.requires_confirmation
        /\ (assess_call.fn = "assess_plan" /\ decision # NoDecision)
           => /\ ~(decision.approved /\ decision.requires_confirmation)
              /\ (~decision.approved /\ ~decision.requires_confirmation)
                 <=> assess_call.steps = <<>>

\* assess_action refused a deletion of high risk and asks for confirmation
DecisionFlagsWitness ==
    /\ assess_call.fn = "assess_action"
    /\ assess_call.action = Action("fs_delete", 9, "a.txt", "")
    /\ ~assess_call.decision.approved
    /\ assess_call.decision.requires_confirmation

\* the positions of the call history with a call of the given kind
CallsOf(kind) == {i \in DOMAIN calls : calls[i].kind = kind}

\* C40: reflect_and_fix(max_retries) returns success = true only when the
\* last thing it did was a verification that reported 'pass'; it makes at
\* most max_retries verifications and at most max_retries reflector calls
\* (each followed by the one fix plan it returned); a failed fix action is
\* the last call it makes and the result is then success = false; and with
\* no current plan it returns success = false having called neither the
\* verifier nor the reflector.
ReflectAndFixBounded ==
    pc \in {"rf_verify", "rf_reflect", "rf_done"}
    => /\ Cardinality(CallsOf("verifier")) <= max_retries
       /\ Cardinality(CallsOf("reflector")) <= max_retries
       /\ Cardinality(CallsOf("reflector")) <= Cardinality(CallsOf("verifier"))
       /\ \A i \in DOMAIN calls :
             (IsFixCall(calls[i]) /\ ~calls[i].success)
             => i = Len(calls) /\ pc = "rf_done" /\ ~op_result.success
       /\ pc = "rf_done"
          => /\ op_result.op = "reflect_and_fix"
             /\ op_result.success
                => /\ calls # <<>>
                   /\ calls[Len(calls)].kind = "verifier"
                   /\ calls[Len(calls)].success
                   /\ verification_results[Len(verification_results)] = "pass"
             /\ current_plan = <<>> => ~op_result.success /\ calls = <<>>

\* reflect_and_fix(2) returned success on its second attempt: a failed
\* verification, a fix plan of three actions that all succeeded, then a
\* verification that passed
ReflectAndFixWitness ==
    /\ pc = "rf_done"
    /\ max_retries = 2
    /\ op_result.success
    /\ op_result.attempts = 2
    /\ Cardinality(CallsOf("verifier")) = 2
    /\ Cardinality(CallsOf("reflector")) = 1
    /\ Cardinality({i \in DOMAIN calls : IsFixCall(calls[i])}) = 3

====
